---- MODULE Spec2Model ----
(***************************************************************************)
(* A model of nostr-nostd: note construction, canonicalisation, signing,  *)
(* JSON serialisation and parsing, NIP-04 direct messages.                 *)
(*                                                                         *)
(* Strings and byte buffers are sequences of byte values (0..255).         *)
(* A fallible operation returns a record whose field "tag" is "Ok",        *)
(* "Err" (with the crate's error name in "err") or "Panic" (an unwrap,     *)
(* expect, slice or index failure; "at" names the place).                  *)
(***************************************************************************)
EXTENDS Integers, Sequences, FiniteSets, TLC

VARIABLES
    pc,       \* where the caller is: start, builder, built, wire, parsed, ...
    builder,  \* the NoteBuilder: keypair, build_status (tag count type), note
    note,     \* the Note returned by build
    dm,       \* the inputs of create_dm, once it was called
    wire,     \* the bytes of an event object on their way to Note::try_from
    parsed,   \* what Note::try_from returned
    arg,      \* the inputs of the last call
    ret,      \* what the last call returned
    query     \* the Query the client is filling in

vars == <<pc, builder, note, dm, wire, parsed, arg, ret, query>>

----------------------------------------------------------------------------
(* Results *)

Ok(v) == [tag |-> "Ok", val |-> v]
Err(e) == [tag |-> "Err", err |-> e]
Panic(where) == [tag |-> "Panic", at |-> where]
IsOk(r) == r.tag = "Ok"
IsErr(r, e) == r.tag = "Err" /\ r.err = e
IsPanic(r) == r.tag = "Panic"
Idle == [tag |-> "Idle"]

----------------------------------------------------------------------------
(* Bytes the code names by number *)

SPACE == 32
QUOTE == 34
PLUS == 43
COMMA == 44
LBRACKET == 91
RBRACKET == 93
LBRACE == 123
RBRACE == 125

(* Capacities *)
TAG_SIZE == 150
NOTE_SIZE == 400
MAX_DM_SIZE == 400
MAX_TAGS == 5
DEC_STRING_SIZE == 10
HASH_STR_SIZE == 1536
JSON_SIZE == 1000
HEX_LEN == 64
SIG_HEX_LEN == 128

Byte == 0..255

(* n copies of byte b *)
Rep(b, n) == [i \in 1..n |-> b] \o <<>>

(* s[a+1..b] in 1-based terms: Rust's &s[a..b] with 0-based a, b *)
Sub(s, a, b) == SubSeq(s, a + 1, b)

Min(a, b) == IF a < b THEN a ELSE b

(* whether pattern p occurs in s at 0-based offset i *)
MatchAt(s, p, i) ==
    /\ i + Len(p) <= Len(s)
    /\ \A k \in 1..Len(p) : s[i + k] = p[k]

(* the 0-based offsets at which p occurs in s *)
Occurrences(s, p) == {i \in 0..(Len(s) - Len(p)) : MatchAt(s, p, i)}

SetMin(S) == CHOOSE x \in S : \A y \in S : x <= y

(* the elements of a set of numbers in increasing order *)
SortedSeq(S) ==
    IF S = {} THEN <<>>
    ELSE LET lo == SetMin(S)
             hi == CHOOSE x \in S : \A y \in S : y <= x
         IN SelectSeq([i \in 1..(hi - lo + 1) |-> lo + i - 1], LAMBDA x : x \in S)

(* str::split with a pattern that cannot overlap itself: the pieces between
   successive occurrences, at least one piece (possibly empty) *)
Split(s, p) ==
    LET occ == SelectSeq([i \in 1..(Len(s) + 1) |-> i - 1],
                         LAMBDA i : MatchAt(s, p, i))
        n == Len(occ)
        start(k) == IF k = 1 THEN 0 ELSE occ[k - 1] + Len(p)
        stop(k) == IF k = n + 1 THEN Len(s) ELSE occ[k]
    IN [k \in 1..(n + 1) |-> Sub(s, start(k), stop(k))] \o <<>>

RECURSIVE FlattenRange(_, _, _)
FlattenRange(ss, lo, hi) ==
    IF lo > hi THEN <<>>
    ELSE IF lo = hi THEN ss[lo]
    ELSE LET mid == (lo + hi) \div 2
         IN FlattenRange(ss, lo, mid) \o FlattenRange(ss, mid + 1, hi)

Flatten(ss) == FlattenRange(ss, 1, Len(ss))

----------------------------------------------------------------------------
(* u32 values are kept as two 16-bit halves, so that the whole range up to
   4294967295 is representable. *)

U32(h, l) == [hi |-> h, lo |-> l]
U32Zero == U32(0, 0)
U32Max == U32(65535, 65535)
U32OfU16(n) == U32(0, n)

(* n / 10 and n % 10 *)
U32Div10(n) ==
    LET t == (n.hi % 10) * 65536 + n.lo
    IN U32(n.hi \div 10, t \div 10)
U32Mod10(n) == ((n.hi % 10) * 65536 + n.lo) % 10

(* num * 10 + d, or "overflow" when it does not fit 32 bits *)
U32MulAdd10(n, d) ==
    LET l == n.lo * 10 + d
        h == n.hi * 10 + (l \div 65536)
    IN IF h > 65535 THEN [overflow |-> TRUE, val |-> U32Zero]
       ELSE [overflow |-> FALSE, val |-> U32(h, l % 65536)]

----------------------------------------------------------------------------
(* utils.rs *)

IsDigit(b) == b \in 48..57

(* the loop of lines 12-18: digits of n, least significant first *)
RECURSIVE DigitsRev(_)
DigitsRev(n) ==
    IF n = U32Zero THEN <<>>
    ELSE <<48 + U32Mod10(n)>> \o DigitsRev(U32Div10(n))

Reverse(s) == [i \in 1..Len(s) |-> s[Len(s) + 1 - i]] \o <<>>

to_decimal_str(num) ==
    IF num = U32Zero THEN Ok(<<48>>)
    ELSE LET serialized == DigitsRev(num)
         IN IF Len(serialized) > DEC_STRING_SIZE
            THEN Panic("to_decimal_str: push on a full String")
            ELSE Ok(Reverse(serialized))

----------------------------------------------------------------------------
(* lib.rs: NoteKinds *)

Kind(v, n) == [variant |-> v, val |-> n]
ShortNote == Kind("ShortNote", 1)
DM == Kind("DM", 4)
IOT == Kind("IOT", 5732)
Auth == Kind("Auth", 22242)

U16 == 0..65535

(* a From<u16> whose range arms come before the four named kinds *)
NoteKinds_from_ranges_first(value) ==
    CASE value >= 1000 /\ value < 10000 -> Kind("Regular", value)
      [] value >= 10000 /\ value < 20000 -> Kind("Replaceable", value)
      [] value >= 20000 /\ value < 30000 -> Kind("Ephemeral", value)
      [] value >= 30000 /\ value < 40000 -> Kind("ParameterizedReplaceable", value)
      [] value = 1 -> ShortNote
      [] value = 4 -> DM
      [] OTHER -> Kind("Custom", value)

(* impl From<u16> for NoteKinds: the match arms in order *)
NoteKinds_from(value) ==
    CASE value = 1 -> ShortNote
      [] value = 4 -> DM
      [] value = 5732 -> IOT
      [] value = 22242 -> Auth
      [] value >= 1000 /\ value < 10000 -> Kind("Regular", value)
      [] value >= 10000 /\ value < 20000 -> Kind("Replaceable", value)
      [] value >= 20000 /\ value < 30000 -> Kind("Ephemeral", value)
      [] value >= 30000 /\ value < 40000 -> Kind("ParameterizedReplaceable", value)
      [] OTHER -> Kind("Custom", value)

(* NoteKinds::serialize: the number of the variant, in decimal *)
NoteKinds_number(kind) ==
    CASE kind.variant = "ShortNote" -> 1
      [] kind.variant = "DM" -> 4
      [] kind.variant = "IOT" -> 5732
      [] kind.variant = "Auth" -> 22242
      [] OTHER -> kind.val

NoteKinds_serialize(kind) == to_decimal_str(U32OfU16(NoteKinds_number(kind)))

----------------------------------------------------------------------------
(* base16ct::lower, as the code uses it *)

HexDigit(v) == IF v < 10 THEN 48 + v ELSE 87 + v
IsLowerHex(c) == c \in 48..57 \/ c \in 97..102
HexVal(c) == IF c \in 48..57 THEN c - 48 ELSE c - 87

(* encode(src, dst): dst must hold exactly 2 * Len(src) bytes here *)
HexEncode(bytes) ==
    [i \in 1..(2 * Len(bytes)) |->
        IF i % 2 = 1 THEN HexDigit(bytes[(i + 1) \div 2] \div 16)
        ELSE HexDigit(bytes[i \div 2] % 16)] \o <<>>

(* decode(src, dst) with Len(dst) = n, and dst zeroed by every caller:
   fails on an odd length, on more than 2 * n characters and on a character
   that is not a lowercase hex digit; the value is dst afterwards *)
HexDecode(str, n) ==
    IF Len(str) % 2 = 1 \/ Len(str) > 2 * n
       \/ \E i \in 1..Len(str) : ~IsLowerHex(str[i])
    THEN Err("decode")
    ELSE Ok([i \in 1..n |->
                IF 2 * i <= Len(str)
                THEN HexVal(str[2 * i - 1]) * 16 + HexVal(str[2 * i])
                ELSE 0] \o <<>>)

----------------------------------------------------------------------------
(* The cryptographic primitives the crate calls (sha2, secp256k1, aes, cbc)
   are libraries outside the repository. They are modelled by small
   stand-ins that keep the contracts the code relies on: SHA-256 is a
   deterministic digest of 32 bytes; keys, ECDH and Schnorr signatures are
   those of a Schnorr group of prime order (GroupQ elements generated by
   GroupG modulo GroupP), in the byte formats of the library (32-byte
   big-endian scalars and x-only keys, 64-byte signatures). *)

GroupQ == 100 + 13
GroupP == 2 * GroupQ + 1
GroupG == 2 * 2

RECURSIVE ModExp(_, _)
ModExp(b, e) ==
    IF e = 0 THEN 1
    ELSE LET h == ModExp(b, e \div 2)
             sq == (h * h) % GroupP
         IN IF e % 2 = 1 THEN (sq * b) % GroupP ELSE sq

InGroup(x) == x \in 1..(GroupP - 1) /\ ModExp(x, GroupQ) = 1

(* 32-byte big-endian encoding of a small number and its inverse *)
Enc32(x) == [i \in 1..32 |-> IF i = 32 THEN x ELSE 0] \o <<>>
IsEnc32(bytes) == Len(bytes) = 32 /\ \A i \in 1..31 : bytes[i] = 0
Dec32(bytes) == bytes[32]

(* position-weighted and plain byte sums modulo m *)
RECURSIVE WSum(_, _, _, _)
WSum(s, lo, hi, m) ==
    IF lo > hi THEN 0
    ELSE IF lo = hi THEN ((lo % m) * s[lo]) % m
    ELSE LET mid == (lo + hi) \div 2
         IN (WSum(s, lo, mid, m) + WSum(s, mid + 1, hi, m)) % m

RECURSIVE PSum(_, _, _, _)
PSum(s, lo, hi, m) ==
    IF lo > hi THEN 0
    ELSE IF lo = hi THEN s[lo] % m
    ELSE LET mid == (lo + hi) \div 2
         IN (PSum(s, lo, mid, m) + PSum(s, mid + 1, hi, m)) % m

DigestMod == 65000 + 521

(* Sha256::new().update(bytes).finalize(): 32 bytes *)
Sha256(bytes) ==
    LET a == (1 + PSum(bytes, 1, Len(bytes), DigestMod)) % DigestMod
        b == (Len(bytes) + WSum(bytes, 1, Len(bytes), DigestMod)) % DigestMod
    IN [i \in 1..32 |-> (a * i + b * (33 - i) + (a \div 256) + (b \div 256)) % 256] \o <<>>

(* SecretKey / KeyPair::from_seckey_str: 64 hex characters of a scalar in
   1..GroupQ-1 *)
SecretKeyFromStr(privkey) ==
    LET d == HexDecode(privkey, 32)
    IN IF Len(privkey) # HEX_LEN \/ ~IsOk(d) THEN Err("InvalidPrivkey")
       ELSE IF ~IsEnc32(d.val) \/ Dec32(d.val) \notin 1..(GroupQ - 1)
            THEN Err("InvalidPrivkey")
            ELSE Ok(Dec32(d.val))

(* keypair.x_only_public_key().0.serialize() *)
XOnlyOfSecret(sk) == Enc32(ModExp(GroupG, sk))

(* XOnlyPublicKey::from_slice *)
XOnlyFromSlice(bytes) ==
    IF IsEnc32(bytes) /\ InGroup(Dec32(bytes)) THEN Ok(Dec32(bytes))
    ELSE Err("InvalidPublicKey")

(* the challenge of a signature: a digest of R, P and the message, mod q *)
Challenge(r, p, msg) ==
    (r + 3 * p + WSum(msg, 1, Len(msg), GroupQ)) % GroupQ

(* sign_schnorr_with_aux_rand(message, key_pair, aux_rnd): 64 bytes R || s *)
SignSchnorr(msg, sk, aux) ==
    LET k == 1 + ((WSum(aux, 1, Len(aux), GroupQ) + 7 * sk
                    + PSum(msg, 1, Len(msg), GroupQ)) % (GroupQ - 1))
        r == ModExp(GroupG, k)
        e == Challenge(r, ModExp(GroupG, sk), msg)
    IN Enc32(r) \o Enc32((k + e * sk) % GroupQ)

(* verify_schnorr(sig, message, pubkey) *)
VerifySchnorr(sig, msg, pk) ==
    LET rb == Sub(sig, 0, 32)
        sb == Sub(sig, 32, 64)
    IN /\ IsEnc32(rb) /\ InGroup(Dec32(rb))
       /\ IsEnc32(sb) /\ Dec32(sb) < GroupQ
       /\ ModExp(GroupG, Dec32(sb)) =
            (Dec32(rb) * ModExp(pk, Challenge(Dec32(rb), pk, msg))) % GroupP

----------------------------------------------------------------------------
(* lib.rs: Note *)

None == [some |-> FALSE, val |-> <<>>]
Some(v) == [some |-> TRUE, val |-> v]

(* the Note of new_builder: zeroed id, pubkey, sig *)
EmptyNote ==
    [id |-> Rep(0, HEX_LEN), pubkey |-> Rep(0, HEX_LEN), created_at |-> U32Zero,
     kind |-> ShortNote, tags |-> <<>>, content |-> None,
     sig |-> Rep(0, SIG_HEX_LEN)]

DropLast(s) == Sub(s, 0, Len(s) - 1)

timestamp_bytes(n) == to_decimal_str(n.created_at)

(* one tag as both writers emit it: [ then "element", per element of
   tag.split(","), the last comma removed, then ] and a separating comma *)
WriteTag(tag) ==
    LET elems == Split(tag, <<COMMA>>)
        quoted == Flatten([k \in 1..Len(elems) |->
                              <<QUOTE>> \o elems[k] \o <<QUOTE, COMMA>>])
    IN <<LBRACKET>> \o DropLast(quoted) \o <<RBRACKET, COMMA>>

(* the tags loop, with the last comma removed when a tag was written *)
WriteTags(tags) ==
    LET all == Flatten([t \in 1..Len(tags) |-> WriteTag(tags[t])])
    IN IF Len(tags) > 0 THEN DropLast(all) ELSE all

(* to_json's own tags loop: every element pushed between quotes with a
   comma after it, the last comma popped, ] and a comma pushed *)
JsonWriteTag_keep_comma(tag) ==
    LET elems == Split(tag, <<COMMA>>)
        quoted == Flatten([k \in 1..Len(elems) |->
                              <<QUOTE>> \o elems[k] \o <<QUOTE, COMMA>>])
    IN <<LBRACKET>> \o quoted \o <<RBRACKET, COMMA>>

JsonWriteTag(tag) ==
    LET elems == Split(tag, <<COMMA>>)
        quoted == Flatten([k \in 1..Len(elems) |->
                              <<QUOTE>> \o elems[k] \o <<QUOTE, COMMA>>])
    IN <<LBRACKET>> \o DropLast(quoted) \o <<RBRACKET, COMMA>>

(* the loop over self.tags, with the last comma popped when tags_present *)
JsonWriteTags(tags) ==
    LET all == Flatten([t \in 1..Len(tags) |-> JsonWriteTag(tags[t])])
    IN IF Len(tags) > 0 THEN DropLast(all) ELSE all

(* Every write goes to hash_str[count]. A comma that is removed again is
   always followed by a longer write, so count never exceeds its final
   value: an index is out of bounds exactly when the final length exceeds
   the buffer. *)
to_hash_str(n) ==
    LET ts == timestamp_bytes(n)
        kd == NoteKinds_serialize(n.kind)
    IN IF IsPanic(ts) THEN ts
       ELSE IF IsPanic(kd) THEN kd
       ELSE LET out == <<91, 48, 44, 34>> \o n.pubkey \o <<34, 44>>
                       \o ts.val \o <<COMMA>> \o kd.val \o <<COMMA>>
                       \o <<LBRACKET>> \o WriteTags(n.tags) \o <<93, 44, 34>>
                       \o (IF n.content.some THEN n.content.val ELSE <<>>)
                       \o <<34, 93>>
            IN IF Len(out) > HASH_STR_SIZE
               THEN Panic("to_hash_str: index out of bounds")
               ELSE Ok(out)

set_pubkey(n, xonly) == Ok([n EXCEPT !.pubkey = HexEncode(xonly)])

set_id(n) ==
    LET h == to_hash_str(n)
    IN IF IsPanic(h) THEN h
       ELSE Ok([n EXCEPT !.id = HexEncode(Sha256(h.val))])

set_sig(n, sk, aux_rnd) ==
    LET msg == HexDecode(n.id, 32)
    IN IF ~IsOk(msg) THEN Err("InternalSigningError")
       ELSE Ok([n EXCEPT !.sig = HexEncode(SignSchnorr(msg.val, sk, aux_rnd))])

validate_signature(n) ==
    LET msg == HexDecode(n.id, 32)
        sig == HexDecode(n.sig, 64)
        pkb == HexDecode(n.pubkey, 32)
    IN IF ~IsOk(msg) THEN Panic("validate_signature: expect 1 (id)")
       ELSE IF ~IsOk(sig) THEN Panic("validate_signature: expect 5 (sig)")
       ELSE IF ~IsOk(pkb) THEN Panic("validate_signature: expect 1 (pubkey)")
       ELSE LET pk == XOnlyFromSlice(pkb.val)
            IN IF ~IsOk(pk) THEN Panic("validate_signature: expect 4")
               ELSE IF VerifySchnorr(sig.val, msg.val, pk.val) THEN Ok(TRUE)
               ELSE Err("InvalidSignature")

(* Vec<u8, 1000>::push fails, and its expect panics, exactly when the
   final length exceeds the capacity (see to_hash_str). *)
to_json(n) ==
    LET ts == timestamp_bytes(n)
        kd == NoteKinds_serialize(n.kind)
    IN IF IsPanic(ts) THEN ts
       ELSE IF IsPanic(kd) THEN kd
       ELSE LET out == <<123, 34, 99, 111, 110, 116, 101, 110, 116, 34, 58, 34>>
                       \o (IF n.content.some THEN n.content.val ELSE <<>>)
                       \o <<34, 44, 34, 99, 114, 101, 97, 116, 101, 100, 95, 97, 116, 34, 58>>
                       \o ts.val
                       \o <<44, 34, 105, 100, 34, 58, 34>>
                       \o n.id
                       \o <<34, 44, 34, 107, 105, 110, 100, 34, 58>>
                       \o kd.val
                       \o <<44, 34, 112, 117, 98, 107, 101, 121, 34, 58, 34>>
                       \o n.pubkey
                       \o <<34, 44, 34, 115, 105, 103, 34, 58, 34>>
                       \o n.sig
                       \o <<34, 44, 34, 116, 97, 103, 115, 34, 58, 91>>
                       \o JsonWriteTags(n.tags)
                       \o <<93, 125>>
            IN IF Len(out) > JSON_SIZE
               THEN Panic("to_json: push on a full Vec")
               ELSE Ok(out)

WireLead(msg_type) ==
    CASE msg_type = "Event" -> <<91, 34, 69, 86, 69, 78, 84, 34, 44>>
      [] msg_type = "Req" -> <<91, 34, 82, 69, 81, 34, 44>>
      [] msg_type = "Auth" -> <<91, 34, 65, 85, 84, 72, 34, 44>>
      [] msg_type = "Close" -> <<91, 34, 67, 76, 79, 83, 69, 34, 44>>

serialize_to_relay(n, msg_type) ==
    LET json == to_json(n)
    IN IF IsPanic(json) THEN json
       ELSE LET out == WireLead(msg_type) \o json.val \o <<RBRACKET>>
            IN IF Len(out) > JSON_SIZE
               THEN Panic("serialize_to_relay: push on a full Vec")
               ELSE Ok(out)

----------------------------------------------------------------------------
(* parse_json.rs *)

(* &value[a..b]: panics when a > b or b is past the end *)
Slice(s, a, b) ==
    IF a > b \/ b > Len(s) THEN Panic("slice index out of range")
    ELSE Ok(Sub(s, a, b))

get_end_index(locs, this_pos, max_len, is_string) ==
    IF this_pos = Len(locs) - 1
    THEN max_len - (IF is_string THEN 2 ELSE 1)
    ELSE locs[this_pos + 2] - (IF is_string THEN 2 ELSE 1)

(* binary_search over the sorted, pairwise distinct locs: the 0-based
   position of search_element *)
find_index(locs, search_element) ==
    (CHOOSE k \in 1..Len(locs) : locs[k] = search_element) - 1

(* the pass of remove_whitespace over value[lo..hi], entered with the
   flag remove; out is what it pushes, remove the flag it leaves *)
RECURSIVE StripPass(_, _, _, _)
StripPass(value, lo, hi, remove) ==
    IF lo > hi THEN [out |-> <<>>, remove |-> remove]
    ELSE IF lo = hi
    THEN LET c == value[lo]
             r == IF c = QUOTE THEN ~remove ELSE remove
         IN [out |-> IF c = SPACE /\ r THEN <<>> ELSE <<c>>, remove |-> r]
    ELSE LET mid == (lo + hi) \div 2
             l == StripPass(value, lo, mid, remove)
             r == StripPass(value, mid + 1, hi, l.remove)
         IN [out |-> l.out \o r.out, remove |-> r.remove]

remove_whitespace(value, N) ==
    LET out == StripPass(value, 1, Len(value), TRUE).out
    IN IF Len(out) > N THEN Err("ContentOverflow") ELSE Ok(out)

remove_array_chars(value, N) ==
    LET out == SelectSeq(value, LAMBDA c : c # LBRACKET /\ c # RBRACKET /\ c # QUOTE)
    IN IF Len(out) > N THEN Err("ContentOverflow") ELSE Ok(out)

(* value.match_indices(pat).next(): the first occurrence, if any *)
FirstIndex(value, pat) ==
    LET occ == Occurrences(value, pat)
    IN IF occ = {} THEN None ELSE Some(SetMin(occ))

(* uN::from_str_radix(data, 10): an optional +, then one or more digits,
   the value within the type *)
RECURSIVE ParseDigits(_, _, _)
ParseDigits(data, i, acc) ==
    IF i > Len(data) THEN Ok(acc)
    ELSE IF ~IsDigit(data[i]) THEN Err("InvalidDigit")
    ELSE LET nx == U32MulAdd10(acc, data[i] - 48)
         IN IF nx.overflow THEN Err("PosOverflow")
            ELSE ParseDigits(data, i + 1, nx.val)

ParseU32(data) ==
    LET body == IF Len(data) > 0 /\ data[1] = PLUS THEN Tail(data) ELSE data
    IN IF body = <<>> THEN Err("Empty") ELSE ParseDigits(body, 1, U32Zero)

ParseU16(data) ==
    LET r == ParseU32(data)
    IN IF IsOk(r) /\ r.val.hi # 0 THEN Err("PosOverflow")
       ELSE IF IsOk(r) THEN Ok(r.val.lo) ELSE r

(* for_each(|b| { arr[count] = *b; count += 1 }) into [0; n] *)
FillArray(data, n) ==
    IF Len(data) > n THEN Panic("index out of bounds")
    ELSE Ok([i \in 1..n |-> IF i <= Len(data) THEN data[i] ELSE 0] \o <<>>)

TagsCapacity == MAX_TAGS

(* a tags loop that stops silently at the capacity *)
RECURSIVE CollectTags_truncating(_, _, _)
CollectTags_truncating(pieces, i, tags) ==
    IF i > Len(pieces) \/ Len(tags) >= TagsCapacity THEN Ok(tags)
    ELSE IF Len(pieces[i]) = 0 THEN CollectTags_truncating(pieces, i + 1, tags)
    ELSE LET tag == remove_array_chars(pieces[i], TAG_SIZE)
         IN IF ~IsOk(tag) THEN tag
            ELSE CollectTags_truncating(pieces, i + 1, Append(tags, tag.val))

(* tags_data.split("],").try_for_each(...) *)
RECURSIVE CollectTags(_, _, _)
CollectTags(pieces, i, tags) ==
    IF i > Len(pieces) THEN Ok(tags)
    ELSE IF Len(pieces[i]) = 0 THEN CollectTags(pieces, i + 1, tags)
    ELSE LET tag == remove_array_chars(pieces[i], TAG_SIZE)
         IN IF ~IsOk(tag) THEN tag
            ELSE IF Len(tags) >= TagsCapacity THEN Err("TooManyTags")
            ELSE CollectTags(pieces, i + 1, Append(tags, tag.val))

content_str == <<34, 99, 111, 110, 116, 101, 110, 116, 34, 58, 34>>
created_at_str == <<34, 99, 114, 101, 97, 116, 101, 100, 95, 97, 116, 34, 58>>
kind_str == <<34, 107, 105, 110, 100, 34, 58>>
id_str == <<34, 105, 100, 34, 58, 34>>
pubkey_str == <<34, 112, 117, 98, 107, 101, 121, 34, 58, 34>>
sig_str == <<34, 115, 105, 103, 34, 58, 34>>
tags_str == <<34, 116, 97, 103, 115, 34, 58>>

(* the value of the key found at loc: from the end of the key pattern to
   get_end_index *)
FieldData(value, locs, loc, pat, is_string) ==
    Slice(value, loc + Len(pat),
          get_end_index(locs, find_index(locs, loc), Len(value), is_string))

(* the last step of try_from: the signature check decides *)
Validated(n) ==
    LET v == validate_signature(n)
    IN IF IsOk(v) THEN Ok(n) ELSE v

(* impl TryFrom<&str> for Note, after the seven keys were found *)
NoteFromFields(value, loc) ==
    LET content_loc == loc.content
        created_at_loc == loc.created_at
        kind_loc == loc.kind
        id_loc == loc.id
        pubkey_loc == loc.pubkey
        sig_loc == loc.sig
        tags_loc == loc.tags
        locs == SortedSeq({content_loc, created_at_loc, kind_loc, id_loc,
                           pubkey_loc, sig_loc, tags_loc})
        content_data == FieldData(value, locs, content_loc, content_str, TRUE)
        id_data == FieldData(value, locs, id_loc, id_str, TRUE)
        pubkey_data == FieldData(value, locs, pubkey_loc, pubkey_str, TRUE)
        sig_data == FieldData(value, locs, sig_loc, sig_str, TRUE)
        kind_data == FieldData(value, locs, kind_loc, kind_str, FALSE)
        created_at_data == FieldData(value, locs, created_at_loc, created_at_str, FALSE)
        tags_data == FieldData(value, locs, tags_loc, tags_str, TRUE)
    IN
    IF IsPanic(content_data) THEN content_data
    ELSE IF Len(content_data.val) > NOTE_SIZE
    THEN Panic("String::from: content longer than the String")
    ELSE IF IsPanic(id_data) THEN id_data
    ELSE LET id == FillArray(id_data.val, HEX_LEN) IN
    IF IsPanic(id) THEN id
    ELSE IF IsPanic(pubkey_data) THEN pubkey_data
    ELSE LET pubkey == FillArray(pubkey_data.val, HEX_LEN) IN
    IF IsPanic(pubkey) THEN pubkey
    ELSE IF IsPanic(sig_data) THEN sig_data
    ELSE LET sig == FillArray(sig_data.val, SIG_HEX_LEN) IN
    IF IsPanic(sig) THEN sig
    ELSE IF IsPanic(kind_data) THEN kind_data
    ELSE LET kind == ParseU16(kind_data.val) IN
    IF ~IsOk(kind) THEN Err("MalformedContent")
    ELSE IF IsPanic(created_at_data) THEN created_at_data
    ELSE LET created_at == ParseU32(created_at_data.val) IN
    IF ~IsOk(created_at) THEN Err("MalformedContent")
    ELSE IF IsPanic(tags_data) THEN tags_data
    ELSE LET tags == CollectTags(Split(tags_data.val, <<RBRACKET, COMMA>>), 1, <<>>) IN
    IF ~IsOk(tags) THEN tags
    ELSE Validated([id |-> id.val, pubkey |-> pubkey.val,
                    created_at |-> created_at.val,
                    kind |-> NoteKinds_from(kind.val), tags |-> tags.val,
                    content |-> IF Len(content_data.val) > 0
                                THEN Some(content_data.val) ELSE None,
                    sig |-> sig.val])

Note_try_from(input) ==
    LET stripped == remove_whitespace(input, JSON_SIZE) IN
    IF ~IsOk(stripped) THEN stripped
    ELSE LET value == stripped.val
             content_loc == FirstIndex(value, content_str)
             created_at_loc == FirstIndex(value, created_at_str)
             kind_loc == FirstIndex(value, kind_str)
             id_loc == FirstIndex(value, id_str)
             pubkey_loc == FirstIndex(value, pubkey_str)
             sig_loc == FirstIndex(value, sig_str)
             tags_loc == FirstIndex(value, tags_str)
         IN IF \/ ~content_loc.some \/ ~created_at_loc.some \/ ~kind_loc.some
               \/ ~id_loc.some \/ ~pubkey_loc.some \/ ~sig_loc.some
               \/ ~tags_loc.some
            THEN Err("EventMissingField")
            ELSE NoteFromFields(value,
                    [content |-> content_loc.val, created_at |-> created_at_loc.val,
                     kind |-> kind_loc.val, id |-> id_loc.val,
                     pubkey |-> pubkey_loc.val, sig |-> sig_loc.val,
                     tags |-> tags_loc.val])

----------------------------------------------------------------------------
(* base64ct::Base64 (standard alphabet, padded), as nip04.rs uses it *)

B64Char(v) ==
    IF v < 26 THEN 65 + v
    ELSE IF v < 52 THEN 97 + (v - 26)
    ELSE IF v < 62 THEN 48 + (v - 52)
    ELSE IF v = 62 THEN 43 ELSE 47

IsB64Char(c) == c \in 65..90 \/ c \in 97..122 \/ c \in 48..57 \/ c = 43 \/ c = 47

B64Val(c) ==
    IF c \in 65..90 THEN c - 65
    ELSE IF c \in 97..122 THEN c - 97 + 26
    ELSE IF c \in 48..57 THEN c - 48 + 52
    ELSE IF c = 43 THEN 62
    ELSE IF c = 47 THEN 63 ELSE 0

B64Pad == 60 + 1

B64Len(n) == 4 * ((n + 2) \div 3)

(* Base64::encode(src, dst) with Len(dst) = cap *)
Base64Encode(src, cap) ==
    LET n == Len(src)
        byte(i) == IF i <= n THEN src[i] ELSE 0
        char(j) ==
            LET g == (j - 1) \div 4
                k == (j - 1) % 4
                b1 == byte(3 * g + 1)
                b2 == byte(3 * g + 2)
                b3 == byte(3 * g + 3)
            IN CASE k = 0 -> B64Char(b1 \div 4)
                 [] k = 1 -> B64Char((b1 % 4) * 16 + (b2 \div 16))
                 [] k = 2 -> IF 3 * g + 2 > n THEN B64Pad
                             ELSE B64Char((b2 % 16) * 4 + (b3 \div 64))
                 [] k = 3 -> IF 3 * g + 3 > n THEN B64Pad
                             ELSE B64Char(b3 % 64)
    IN IF B64Len(n) > cap THEN Err("InvalidLength")
       ELSE Ok([j \in 1..B64Len(n) |-> char(j)] \o <<>>)

(* Base64::decode(src, dst) with Len(dst) = cap *)
Base64Decode(src, cap) ==
    LET n == Len(src)
        pad == IF n >= 2 /\ src[n] = B64Pad /\ src[n - 1] = B64Pad THEN 2
               ELSE IF n >= 1 /\ src[n] = B64Pad THEN 1 ELSE 0
        outlen == 3 * (n \div 4) - pad
        v(j) == IF j > n - pad THEN 0 ELSE B64Val(src[j])
        byte(i) ==
            LET g == (i - 1) \div 3
                k == (i - 1) % 3
            IN CASE k = 0 -> v(4 * g + 1) * 4 + (v(4 * g + 2) \div 16)
                 [] k = 1 -> (v(4 * g + 2) % 16) * 16 + (v(4 * g + 3) \div 4)
                 [] k = 2 -> (v(4 * g + 3) % 4) * 64 + v(4 * g + 4)
    IN IF n % 4 # 0 \/ \E j \in 1..(n - pad) : ~IsB64Char(src[j])
       THEN Err("InvalidEncoding")
       ELSE IF outlen > cap THEN Err("InvalidLength")
       ELSE Ok([i \in 1..outlen |-> byte(i)] \o <<>>)

----------------------------------------------------------------------------
(* aes::Aes256 under cbc::Encryptor / Decryptor: a keyed, invertible
   substitution of 16-byte blocks, chained by xor with the previous
   ciphertext block (the IV first). *)

Bit(x, k) == (x \div (2 ^ k)) % 2

Xor(a, b) ==
    ((Bit(a, 0) + Bit(b, 0)) % 2)
    + 2 * ((Bit(a, 1) + Bit(b, 1)) % 2)
    + 4 * ((Bit(a, 2) + Bit(b, 2)) % 2)
    + 8 * ((Bit(a, 3) + Bit(b, 3)) % 2)
    + 16 * ((Bit(a, 4) + Bit(b, 4)) % 2)
    + 32 * ((Bit(a, 5) + Bit(b, 5)) % 2)
    + 64 * ((Bit(a, 6) + Bit(b, 6)) % 2)
    + 128 * ((Bit(a, 7) + Bit(b, 7)) % 2)

XorBlock(a, b) == [i \in 1..16 |-> Xor(a[i], b[i])] \o <<>>

(* the block cipher under key: xor with a pad that differs between any two
   shared keys of the group; it is its own inverse *)
CipherPad(key) == [i \in 1..16 |-> (7 * Dec32(key) + 13 * i) % 256] \o <<>>

BlockEncrypt(key, block) == XorBlock(block, CipherPad(key))
BlockDecrypt(key, block) == XorBlock(block, CipherPad(key))

RECURSIVE XorRange(_, _, _)
XorRange(blocks, lo, hi) ==
    IF lo = hi THEN blocks[lo]
    ELSE LET mid == (lo + hi) \div 2
         IN XorBlock(XorRange(blocks, lo, mid), XorRange(blocks, mid + 1, hi))

(* what the i-th encrypt_block_mut of a cbc::Encryptor made with key and iv
   leaves in the block, blocks being the blocks passed so far:
   c[i] = BlockEncrypt(key, blocks[i] xor c[i-1]) with c[0] = iv, which for
   this block cipher unrolls to the xor of blocks[1..i], the iv and, for an
   odd i, the pad *)
CbcEncryptBlock(key, iv, blocks, i) ==
    LET chained == XorBlock(XorRange(blocks, 1, i), iv)
    IN IF i % 2 = 1 THEN BlockEncrypt(key, chained) ELSE chained

(* what the i-th decrypt_block_mut of a cbc::Decryptor leaves in the block *)
CbcDecryptBlock(key, iv, blocks, i) ==
    XorBlock(BlockDecrypt(key, blocks[i]), IF i = 1 THEN iv ELSE blocks[i - 1])

----------------------------------------------------------------------------
(* nip04.rs *)

BLOCK == 16
IV_B64_BUF == 32

(* ecdh::shared_secret_point(normalize_schnorr_pk(pk), sk)[..32] *)
generate_shared_key(sk, pk) == Ok(Enc32(ModExp(pk, sk)))

pad_block(input, block_size) ==
    IF Len(input) > block_size THEN Panic("pad_block: subtract with overflow")
    ELSE Ok([i \in 1..block_size |->
                IF i <= Len(input) THEN input[i] ELSE block_size - Len(input)] \o <<>>)

(* whether byte offset k of the UTF-8 string text is a character boundary *)
IsCharBoundary(text, k) ==
    k = 0 \/ k = Len(text) \/ (k < Len(text) /\ text[k + 1] \notin 128..191)

(* the loop of encrypt over i in 0..total_blocks: slice the text, pad the
   slice, encrypt the block, write it to ciphertext[i * 16 + j] *)
EncryptBlocks(key, text, total_blocks, iv) ==
    LET end_slice(i) == Min(i * BLOCK + BLOCK, Len(text))
        sliced(i) == IsCharBoundary(text, i * BLOCK) /\ IsCharBoundary(text, end_slice(i))
        written(i) == i * BLOCK + BLOCK <= MAX_DM_SIZE
        stops == {i \in 0..(total_blocks - 1) : ~sliced(i) \/ ~written(i)}
        blocks == [i \in 1..total_blocks |->
                      pad_block(Sub(text, (i - 1) * BLOCK, end_slice(i - 1)), BLOCK).val] \o <<>>
    IN IF stops # {}
       THEN IF ~sliced(SetMin(stops))
            THEN Panic("encrypt: byte index is not a char boundary")
            ELSE Panic("encrypt: ciphertext index out of bounds")
       ELSE Ok(Flatten([i \in 1..total_blocks |->
                           CbcEncryptBlock(key, iv, blocks, i)] \o <<>>))

encrypt(sk, pk, text, iv) ==
    LET key == generate_shared_key(sk, pk).val
        total_blocks == (Len(text) \div BLOCK) + 1
        ciphertext == EncryptBlocks(key, text, total_blocks, iv)
    IN IF ~IsOk(ciphertext) THEN ciphertext
       ELSE LET encoded == Base64Encode(ciphertext.val, MAX_DM_SIZE)
                iv_str == Base64Encode(iv, IV_B64_BUF)
            IN IF ~IsOk(encoded) \/ ~IsOk(iv_str) THEN Err("EncodeError")
               ELSE IF Len(encoded.val) + 4 + Len(iv_str.val) > MAX_DM_SIZE
               THEN Err("ContentOverflow")
               ELSE Ok(encoded.val \o <<63, 105, 118, 61>> \o iv_str.val)

(* the loop of decrypt over the total_blocks blocks of the decoded content *)
DecryptBlocks(key, enc, total_blocks, iv) ==
    LET blocks == [i \in 1..total_blocks |->
                      pad_block(Sub(enc, (i - 1) * BLOCK, i * BLOCK), BLOCK).val] \o <<>>
    IN Flatten([i \in 1..total_blocks |->
                   CbcDecryptBlock(key, iv, blocks, i)] \o <<>>)

(* pushing a byte as a char: a byte above 127 becomes a two-byte character *)
AsChar(b) == IF b < 128 THEN <<b>> ELSE <<192 + (b \div 64), 128 + (b % 64)>>

PadLimit == BLOCK + 1

decrypt(sk, pk, encrypted_content) ==
    LET parts == Split(encrypted_content, <<63, 105, 118, 61>>)
    IN IF Len(parts) > 2 THEN Panic("Vec::from_iter overflow")
       ELSE IF Len(parts) # 2 THEN Err("MalformedContent")
       ELSE LET enc == Base64Decode(parts[1], MAX_DM_SIZE)
                iv == Base64Decode(parts[2], MAX_DM_SIZE)
            IN IF ~IsOk(enc) \/ ~IsOk(iv) THEN Err("EncodeError")
               ELSE IF Len(iv.val) # BLOCK
               THEN Panic("decrypt: iv is not 16 bytes")
               ELSE LET key == generate_shared_key(sk, pk).val
                        total_blocks == Len(enc.val) \div BLOCK
                        utf_8 == DecryptBlocks(key, enc.val, total_blocks, iv.val)
                    IN IF Len(utf_8) = 0 THEN Err("InternalError")
                       ELSE LET last == utf_8[Len(utf_8)]
                                pad_digit == IF last < PadLimit THEN last ELSE 0
                                out == Flatten([i \in 1..(Len(utf_8) - pad_digit) |->
                                                   AsChar(utf_8[i])])
                            IN IF Len(out) > MAX_DM_SIZE THEN Err("ContentOverflow")
                               ELSE Ok(out)

----------------------------------------------------------------------------
(* lib.rs: Note::get_tag, Note::read_dm *)

SEARCH_TAG_SIZE == 10
TAG_VALUES == 5

StartsWith(s, p) == MatchAt(s, p, 0)

get_tag(n, tag) ==
    IF Len(tag) > SEARCH_TAG_SIZE THEN Panic("String::from: tag name longer than the String")
    ELSE IF Len(tag) + 1 > SEARCH_TAG_SIZE THEN Err("TagNameTooLong")
    ELSE LET search_tag == tag \o <<COMMA>>
             hits == SelectSeq(n.tags, LAMBDA my_tag : StartsWith(my_tag, search_tag))
             values == [k \in 1..Len(hits) |-> Tail(Split(hits[k], <<COMMA>>))] \o <<>>
         IN IF \E k \in 1..Len(values) : Len(values[k]) > TAG_VALUES
            THEN Panic("Vec::from_iter overflow")
            ELSE Ok(values)

read_dm(n, privkey) ==
    LET sk == SecretKeyFromStr(privkey)
        pk_tags == get_tag(n, <<112>>)
    IN IF ~IsOk(sk) THEN Err("InvalidPrivkey")
       ELSE IF ~IsOk(pk_tags) THEN pk_tags
       ELSE IF Len(pk_tags.val) = 0 THEN Err("MalformedContent")
       ELSE IF Len(pk_tags.val[1]) = 0 THEN Err("MalformedContent")
       ELSE LET msg == HexDecode(pk_tags.val[1][1], 32)
            IN IF ~IsOk(msg) THEN Err("EncodeError")
               ELSE LET pk == XOnlyFromSlice(msg.val)
                    IN IF ~IsOk(pk) THEN Err("InvalidPubkey")
                       ELSE IF ~n.content.some THEN Err("MalformedContent")
                       ELSE decrypt(sk.val, pk.val, n.content.val)

----------------------------------------------------------------------------
(* lib.rs: NoteBuilder. build_status is the number named by the type
   parameter: ZeroTags = 0 ... FiveTags = 5. *)

NoteBuilder(k, st, n) == [keypair |-> k, build_status |-> st, note |-> n]

new_builder(privkey) ==
    LET key_pair == SecretKeyFromStr(privkey)
    IN IF ~IsOk(key_pair) THEN Err("InvalidPrivkey")
       ELSE Ok(NoteBuilder(key_pair.val, 0, EmptyNote))

(* AddTag is implemented for ZeroTags .. FourTags only *)
HasAddTag(b) == b.build_status < MAX_TAGS

(* an add_tag that returns a builder of the same type state *)
add_tag_same_state(b, tag) ==
    IF Len(b.note.tags) >= MAX_TAGS
    THEN Panic("AddTag impl error, should be impossible to err here")
    ELSE Ok(NoteBuilder(b.keypair, b.build_status,
                        [b.note EXCEPT !.tags = Append(b.note.tags, tag)]))

add_tag(b, tag) ==
    IF Len(b.note.tags) >= MAX_TAGS
    THEN Panic("AddTag impl error, should be impossible to err here")
    ELSE Ok(NoteBuilder(b.keypair, b.build_status + 1,
                        [b.note EXCEPT !.tags = Append(b.note.tags, tag)]))

set_kind(b, kind) == [b EXCEPT !.note.kind = kind]

content(b, c) == [b EXCEPT !.note.content = Some(c)]

(* a create_auth that leaves the kind as it was *)
create_auth_keeps_kind(b, challenge_string, relay) ==
    IF 10 + Len(challenge_string) > TAG_SIZE THEN Err("ContentOverflow")
    ELSE IF 6 + Len(relay) > TAG_SIZE THEN Err("ContentOverflow")
    ELSE Ok(NoteBuilder(b.keypair, 2,
            [b.note EXCEPT
                !.tags = << <<99, 104, 97, 108, 108, 101, 110, 103, 101, 44>> \o challenge_string,
                            <<114, 101, 108, 97, 121, 44>> \o relay >>]))

create_auth(b, challenge_string, relay) ==
    IF 10 + Len(challenge_string) > TAG_SIZE THEN Err("ContentOverflow")
    ELSE IF 6 + Len(relay) > TAG_SIZE THEN Err("ContentOverflow")
    ELSE Ok(NoteBuilder(b.keypair, 2,
            [b.note EXCEPT
                !.tags = << <<99, 104, 97, 108, 108, 101, 110, 103, 101, 44>> \o challenge_string,
                            <<114, 101, 108, 97, 121, 44>> \o relay >>,
                !.kind = Auth]))

(* a create_dm that also sets the kind to DM *)
create_dm_sets_kind(b, text, rcvr_pubkey, iv) ==
    LET msg == HexDecode(rcvr_pubkey, 32)
    IN IF ~IsOk(msg) THEN Err("InvalidPubkey")
       ELSE LET pubkey == XOnlyFromSlice(msg.val)
            IN IF ~IsOk(pubkey) THEN Err("InvalidPubkey")
               ELSE LET encrypted == encrypt(b.keypair, pubkey.val, text, iv)
                    IN IF ~IsOk(encrypted) THEN encrypted
                       ELSE IF 2 + Len(rcvr_pubkey) > TAG_SIZE THEN Panic("impossible")
                       ELSE add_tag([b EXCEPT !.note.content = Some(encrypted.val),
                                              !.note.kind = DM],
                                    <<112, 44>> \o rcvr_pubkey)

create_dm(b, text, rcvr_pubkey, iv) ==
    LET msg == HexDecode(rcvr_pubkey, 32)
    IN IF ~IsOk(msg) THEN Err("InvalidPubkey")
       ELSE LET pubkey == XOnlyFromSlice(msg.val)
            IN IF ~IsOk(pubkey) THEN Err("InvalidPubkey")
               ELSE LET encrypted == encrypt(b.keypair, pubkey.val, text, iv)
                    IN IF ~IsOk(encrypted) THEN encrypted
                       ELSE IF 2 + Len(rcvr_pubkey) > TAG_SIZE THEN Panic("impossible")
                       ELSE add_tag([b EXCEPT !.note.content = Some(encrypted.val)],
                                    <<112, 44>> \o rcvr_pubkey)

(* a build that hashes before the pubkey is set *)
build_id_before_pubkey(b, created_at, aux_rnd) ==
    LET n1 == [b.note EXCEPT !.created_at = created_at]
        n2 == set_id(n1)
    IN IF ~IsOk(n2) THEN n2
       ELSE set_sig(set_pubkey(n2.val, XOnlyOfSecret(b.keypair)).val,
                    b.keypair, aux_rnd)

(* build: created_at, then set_pubkey, set_id, set_sig *)
build(b, created_at, aux_rnd) ==
    LET n1 == [b.note EXCEPT !.created_at = created_at]
        n2 == set_pubkey(n1, XOnlyOfSecret(b.keypair))
        n3 == set_id(n2.val)
    IN IF ~IsOk(n3) THEN n3 ELSE set_sig(n3.val, b.keypair, aux_rnd)

----------------------------------------------------------------------------
(* query.rs *)

QUERY_VEC_LEN == 5
CLOSE_SIZE == 100

Query_new ==
    [ids |-> <<>>, authors |-> <<>>, kinds |-> <<>>, ref_events |-> <<>>,
     ref_pks |-> <<>>, since |-> None, until |-> None, limit |-> None]

(* val between two double quotes *)
Quoted(val) == <<QUOTE>> \o val \o <<QUOTE>>

(* heapless Vec::push: Err when the Vec is full *)
VecPush(vec, x, cap) == IF Len(vec) >= cap THEN Err("full") ELSE Ok(Append(vec, x))

(* pushes every byte of bs on json, or fails with error e at the first
   byte that does not fit *)
PushAll(json, bs, e) ==
    IF ~IsOk(json) THEN json
    ELSE IF Len(json.val) + Len(bs) > JSON_SIZE THEN Err(e)
    ELSE Ok(json.val \o bs)

(* json.pop(); json.push(93) when remove_inner_list_comma is set *)
CloseList(json, remove_inner_list_comma) ==
    IF ~IsOk(json) \/ ~remove_inner_list_comma THEN json
    ELSE PushAll(Ok(DropLast(json.val)), <<RBRACKET>>, "ContentOverflow")

(* the key of a member after a comma, whether or not a member precedes *)
OpenMember_always_comma(json, present, add_obj_comma, key) ==
    IF ~present THEN json
    ELSE PushAll(PushAll(json, <<COMMA>>, "ContentOverflow"), key, "ContentOverflow")

(* the key of a member, after a comma when a member was written before *)
OpenMember(json, present, add_obj_comma, key) ==
    IF ~present THEN json
    ELSE PushAll(IF add_obj_comma THEN PushAll(json, <<COMMA>>, "ContentOverflow")
                 ELSE json,
                 key, "ContentOverflow")

(* the loop over ids, authors and ref_pks: quote, the 64 bytes, quote, comma *)
QuotedElements(json, vals) ==
    PushAll(json,
            Flatten([k \in 1..Len(vals) |-> <<QUOTE>> \o vals[k] \o <<QUOTE, COMMA>>] \o <<>>),
            "ContentOverflow")

(* the loop over ref_events: quote, the 64 bytes, comma *)
RefEventElements(json, vals) ==
    PushAll(json,
            Flatten([k \in 1..Len(vals) |-> <<QUOTE>> \o vals[k] \o <<COMMA>>] \o <<>>),
            "ContentOverflow")

RECURSIVE KindElementsFrom(_, _, _)
(* the loop over kinds: the decimal digits and a comma; a digit that does
   not fit is a QueryBuilderOverflow, a comma a ContentOverflow *)
KindElementsFrom(json, kinds, k) ==
    IF ~IsOk(json) \/ k > Len(kinds) THEN json
    ELSE LET digits == NoteKinds_serialize(kinds[k])
         IN IF ~IsOk(digits) THEN digits
            ELSE KindElementsFrom(
                    PushAll(PushAll(json, digits.val, "QueryBuilderOverflow"),
                            <<COMMA>>, "ContentOverflow"),
                    kinds, k + 1)

(* a since, until or limit member: its key and the decimal digits *)
OptionMember(json, opt, add_obj_comma, key) ==
    IF ~opt.some THEN json
    ELSE LET digits == to_decimal_str(opt.val)
         IN IF ~IsOk(digits) THEN digits
            ELSE PushAll(OpenMember(json, TRUE, add_obj_comma, key),
                         digits.val, "ContentOverflow")

Query_to_json(q) ==
    LET j0 == Ok(<<LBRACE>>)
        has_ids == Len(q.ids) > 0
        j1 == CloseList(QuotedElements(
                  OpenMember(j0, has_ids, FALSE, <<34, 105, 100, 34, 58, 91>>),
                  q.ids), has_ids)
        c1 == has_ids
        has_authors == Len(q.authors) > 0
        j2 == CloseList(QuotedElements(
                  OpenMember(j1, has_authors, c1,
                             <<34, 97, 117, 116, 104, 111, 114, 115, 34, 58, 91>>),
                  q.authors), has_authors)
        c2 == c1 \/ has_authors
        has_pks == Len(q.ref_pks) > 0
        j3 == CloseList(QuotedElements(
                  OpenMember(j2, has_pks, c2, <<34, 35, 112, 34, 58, 91>>),
                  q.ref_pks), has_pks)
        c3 == c2 \/ has_pks
        has_events == Len(q.ref_events) > 0
        j4 == CloseList(RefEventElements(
                  OpenMember(j3, has_events, c3, <<34, 35, 101, 34, 58, 91>>),
                  q.ref_events), has_events)
        c4 == c3 \/ has_events
        has_kinds == Len(q.kinds) > 0
        j5 == CloseList(KindElementsFrom(
                  OpenMember(j4, has_kinds, c4,
                             <<34, 107, 105, 110, 100, 115, 34, 58, 91>>),
                  q.kinds, 1), has_kinds)
        c5 == c4 \/ has_kinds
        j6 == OptionMember(j5, q.since, c5, <<34, 115, 105, 110, 99, 101, 34, 58>>)
        c6 == c5 \/ q.since.some
        j7 == OptionMember(j6, q.until, c6, <<34, 117, 110, 116, 105, 108, 34, 58>>)
        c7 == c6 \/ q.until.some
        j8 == OptionMember(j7, q.limit, c7, <<34, 108, 105, 109, 105, 116, 34, 58>>)
    IN IF ~IsOk(j8) THEN j8
       ELSE IF Len(j8.val) >= JSON_SIZE
            THEN Panic("Query::to_json: push of } on a full Vec")
            ELSE Ok(Append(j8.val, RBRACE))

(* Query::serialize_to_relay: the pushes of the subscription id and of the
   quote and comma after it are guarded by expect *)
Query_serialize_to_relay(q, subscription_id) ==
    LET lead == <<91, 34, 82, 69, 81, 34, 44, 34>>
    IN IF Len(lead) + Len(subscription_id) + 2 > JSON_SIZE
       THEN Panic("Query::serialize_to_relay: expect impossible")
       ELSE LET json == Query_to_json(q)
            IN IF ~IsOk(json) THEN json
               ELSE PushAll(PushAll(Ok(lead \o subscription_id \o <<QUOTE, COMMA>>),
                                    json.val, "QueryBuilderOverflow"),
                            <<RBRACKET>>, "QueryBuilderOverflow")

(* close_subscription: every push on the Vec<u8, 100> is unwrapped *)
close_subscription(id) ==
    LET out == <<91, 34, 67, 76, 79, 83, 69, 34, 44, 34>> \o id \o <<QUOTE, RBRACKET>>
    IN IF Len(out) > CLOSE_SIZE THEN Panic("close_subscription: unwrap on a full Vec")
       ELSE Ok(out)

(* Query::get_my_dms: the result and the Query it leaves behind *)
get_my_dms(q, privkey) ==
    LET key_pair == SecretKeyFromStr(privkey)
    IN IF ~IsOk(key_pair) THEN [ret |-> Err("InvalidPrivkey"), query |-> q]
       ELSE LET msg == HexEncode(XOnlyOfSecret(key_pair.val))
                pks == VecPush(q.ref_pks, msg, QUERY_VEC_LEN)
            IN IF ~IsOk(pks) THEN [ret |-> Err("QueryBuilderOverflow"), query |-> q]
               ELSE LET q1 == [q EXCEPT !.ref_pks = pks.val]
                        kinds == VecPush(q1.kinds, DM, QUERY_VEC_LEN)
                    IN IF ~IsOk(kinds)
                       THEN [ret |-> Err("QueryBuilderOverflow"), query |-> q1]
                       ELSE [ret |-> Ok(TRUE),
                             query |-> [q1 EXCEPT !.kinds = kinds.val]]

----------------------------------------------------------------------------
(* relay_responses.rs *)

CHALLENGE_STRING_SIZE == 64
SUBSCRIPTION_ID_SIZE == 64
MESSAGE_SIZE == 180

AUTH_STR == <<91, 34, 65, 85, 84, 72, 34, 44>>
COUNT_STR == <<91, 34, 67, 79, 85, 78, 84, 34, 44>>
EOSE_STR == <<91, 34, 69, 79, 83, 69, 34, 44>>
EVENT_STR == <<91, 34, 69, 86, 69, 78, 84, 34, 44>>
NOTICE_STR == <<91, 34, 78, 79, 84, 73, 67, 69, 34, 44>>
OK_STR == <<91, 34, 79, 75, 34, 44>>

(* the literal ", {"count":  that follows the id of a COUNT frame *)
COUNT_KEY_LEN == 13

(* `.into()` of a &str into a heapless String<N>: From<&str> unwraps the
   push_str, so a longer string panics *)
StringFrom(str, N) ==
    IF Len(str) > N THEN Panic("String::from: str longer than the String")
    ELSE Ok(str)

ResponseTypes_accept_all(value) ==
    IF StartsWith(value, AUTH_STR) THEN Ok("Auth")
    ELSE IF StartsWith(value, COUNT_STR) THEN Ok("Count")
    ELSE IF StartsWith(value, EOSE_STR) THEN Ok("Eose")
    ELSE IF StartsWith(value, EVENT_STR) THEN Ok("Event")
    ELSE IF StartsWith(value, NOTICE_STR) THEN Ok("Notice")
    ELSE Ok("Ok")

ResponseTypes_try_from(value) ==
    IF StartsWith(value, AUTH_STR) THEN Ok("Auth")
    ELSE IF StartsWith(value, COUNT_STR) THEN Ok("Count")
    ELSE IF StartsWith(value, EOSE_STR) THEN Ok("Eose")
    ELSE IF StartsWith(value, EVENT_STR) THEN Ok("Event")
    ELSE IF StartsWith(value, NOTICE_STR) THEN Ok("Notice")
    ELSE IF StartsWith(value, OK_STR) THEN Ok("Ok")
    ELSE Err("InvalidType")

(* the head of every typed parser: the error of ResponseTypes::try_from,
   or TypeNotAccepted for a frame of another type *)
TypeCheck(value, type) ==
    LET msg_type == ResponseTypes_try_from(value)
    IN IF ~IsOk(msg_type) THEN msg_type
       ELSE IF msg_type.val # type THEN Err("TypeNotAccepted")
       ELSE Ok(TRUE)

(* end_index - start_index is a usize subtraction: below zero it panics in
   a build with overflow checks and wraps to a huge number without them *)
AuthMessage_try_from(value, overflow_checks) ==
    LET t == TypeCheck(value, "Auth")
        start_index == Len(AUTH_STR) + 2
        end_index == Len(value) - 2
    IN IF ~IsOk(t) THEN t
       ELSE IF end_index < start_index
       THEN (IF overflow_checks THEN Panic("attempt to subtract with overflow")
             ELSE Err("ContentOverflow"))
       ELSE IF end_index - start_index > CHALLENGE_STRING_SIZE
       THEN Err("ContentOverflow")
       ELSE LET challenge_string == Slice(value, start_index, end_index)
            IN IF ~IsOk(challenge_string) THEN challenge_string
               ELSE LET str == StringFrom(challenge_string.val, CHALLENGE_STRING_SIZE)
                    IN IF ~IsOk(str) THEN str
                       ELSE Ok([challenge_string |-> str.val])

CountMessage_try_from(value) ==
    LET t == TypeCheck(value, "Count")
        start_index == Len(COUNT_STR) + 2
        end_index == start_index + 64
    IN IF ~IsOk(t) THEN t
       ELSE IF Len(value) < end_index THEN Err("ContentOverflow")
       ELSE LET id == Slice(value, start_index, end_index)
                count_str == Slice(value, end_index + COUNT_KEY_LEN, Len(value) - 2)
            IN IF ~IsOk(id) THEN id
               ELSE IF ~IsOk(count_str) THEN count_str
               ELSE LET num == ParseU16(count_str.val)
                    IN IF ~IsOk(num) THEN Err("MalformedContent")
                       ELSE Ok([subscription_id |-> id.val, count |-> num.val])

EoseMessage_try_from(value) ==
    LET t == TypeCheck(value, "Eose")
        start_index == Len(EOSE_STR) + 2
        end_index == start_index + 64
    IN IF ~IsOk(t) THEN t
       ELSE IF Len(value) < end_index THEN Err("ContentOverflow")
       ELSE LET id == Slice(value, start_index, end_index)
            IN IF ~IsOk(id) THEN id
               ELSE Ok([subscription_id |-> id.val])

(* subscription.len() - 1 and value.len() - 2 are usize subtractions; where
   they would go below zero the slice that follows is out of range in
   either build, so both builds panic *)
EventMessage_try_from(frame) ==
    LET t == TypeCheck(frame, "Event")
        value == Sub(frame, Len(EVENT_STR), Len(frame))
        subscription == Split(value, <<COMMA>>)[1]
    IN IF ~IsOk(t) THEN t
       ELSE IF Len(subscription) < 1 \/ Len(value) < 2
       THEN Panic("attempt to subtract with overflow / slice index out of range")
       ELSE LET inner == Slice(subscription, 1, Len(subscription) - 1)
            IN IF ~IsOk(inner) THEN inner
               ELSE LET subscription_id == StringFrom(inner.val, SUBSCRIPTION_ID_SIZE)
                        end_index == Len(value) - 2
                    IN IF ~IsOk(subscription_id) THEN subscription_id
                       ELSE LET event_json == Slice(value, Len(subscription_id.val), end_index)
                            IN IF ~IsOk(event_json) THEN event_json
                               ELSE LET n == Note_try_from(event_json.val)
                                    IN IF ~IsOk(n) THEN n
                                       ELSE Ok([subscription_id |-> subscription_id.val,
                                                note |-> n.val])

NoticeMessage_try_from(value) ==
    LET t == TypeCheck(value, "Notice")
        start_index == Len(COUNT_STR) + 3
        end_index == Len(value) - 2
    IN IF ~IsOk(t) THEN t
       ELSE IF Len(value) < end_index THEN Err("ContentOverflow")
       ELSE LET msg == Slice(value, start_index, end_index)
            IN IF ~IsOk(msg) THEN msg
               ELSE LET message == StringFrom(msg.val, MESSAGE_SIZE)
                    IN IF ~IsOk(message) THEN message
                       ELSE Ok([message |-> message.val])

OkMessage_try_from(value) ==
    LET t == TypeCheck(value, "Ok")
        id_start == Len(OK_STR) + 2
        id_end == id_start + 64
        tf_start == id_end + 3
        tf_end == tf_start + 5
    IN IF ~IsOk(t) THEN t
       ELSE IF Len(value) < id_end THEN Err("ContentOverflow")
       ELSE LET id == Slice(value, id_start, id_end)
                true_false == Slice(value, tf_start, tf_end)
            IN IF ~IsOk(id) THEN id
               ELSE IF ~IsOk(true_false) THEN true_false
               ELSE IF true_false.val \notin {<<102, 97, 108, 115, 101>>,
                                              <<116, 114, 117, 101, 44>>}
               THEN Err("MalformedContent")
               ELSE LET accepted == (true_false.val = <<116, 114, 117, 101, 44>>)
                        start_index == IF accepted THEN tf_end + 2 ELSE tf_end + 3
                        end_index == Len(value) - 2
                    IN IF Len(value) < end_index THEN Err("ContentOverflow")
                       ELSE LET info == Slice(value, start_index, end_index)
                            IN IF ~IsOk(info) THEN info
                               ELSE LET str == StringFrom(info.val, MESSAGE_SIZE)
                                    IN IF ~IsOk(str) THEN str
                                       ELSE Ok([event_id |-> id.val,
                                                accepted |-> accepted,
                                                info |-> str.val])

----------------------------------------------------------------------------
(* Inputs. Each specification draws the arguments of the calls from an
   input record; the model's bounds are the sizes named here. *)

PrivHex(k) == Rep(48, HEX_LEN - 2) \o HexEncode(<<k>>)
PubHex(k) == HexEncode(Enc32(ModExp(GroupG, k)))

PRIVKEY == PrivHex(5)
PRIVKEY2 == PrivHex(9)
BadPrivkey == PrivHex(0)

l_bitcoin == <<108, 44, 98, 105, 116, 99, 111, 105, 110>>
esptest == <<101, 115, 112, 116, 101, 115, 116>>
hi == <<104, 105>>
relay_url == <<119, 115, 115, 58, 47, 47, 114, 101, 108, 97, 121, 46, 100, 97, 109, 117, 115, 46, 105, 111>>
challenge == <<99, 104, 97, 108, 108, 101, 110, 103, 101, 115, 116, 114, 105, 110, 103, 104, 101, 114, 101>>
extra_tag == <<91, 34, 101, 34, 44, 34, 120, 34, 93>>

(* 1686880020, the created_at of the repository's tests *)
test_time == U32(25739, 48916)

(* the longest tag and the longest content the types admit *)
LongTag == Rep(COMMA, TAG_SIZE)
LongContent == Rep(97, NOTE_SIZE)

(* how many sub-arrays a relay may add to the tags of an event *)
MaxExtraTags == 2

(* the calls of one note's life, with the inputs of the repository's tests *)
TestInputs ==
    [privkeys |-> {PRIVKEY, BadPrivkey},
     readers |-> {PRIVKEY, PRIVKEY2},
     tags |-> {l_bitcoin},
     contents |-> {esptest},
     kinds |-> {IOT},
     times |-> {test_time},
     aux |-> {Rep(0, 32)},
     texts |-> {hi},
     rcvrs |-> {PubHex(9)},
     ivs |-> {Rep(7, BLOCK)},
     challenges |-> {challenge},
     relays |-> {relay_url}]

(* the same calls with the extreme inputs the types admit *)
WideInputs ==
    [privkeys |-> {PRIVKEY, BadPrivkey},
     readers |-> {PRIVKEY, PRIVKEY2, BadPrivkey},
     tags |-> {l_bitcoin, LongTag},
     contents |-> {esptest, LongContent},
     kinds |-> {IOT},
     times |-> {U32Max},
     aux |-> {Rep(0, 32), Rep(1, 32)},
     texts |-> {hi},
     rcvrs |-> {PubHex(9), DropLast(PubHex(9))},
     ivs |-> {Rep(7, BLOCK)},
     challenges |-> {challenge},
     relays |-> {relay_url, LongTag}]

Call(op, in) == [op |-> op, in |-> in]

----------------------------------------------------------------------------
(* The builder's calls *)

Returned(r, next_pc) ==
    /\ ret' = r
    /\ pc' = IF IsOk(r) THEN next_pc ELSE "failed"

NewBuilder(inputs) ==
    /\ pc = "start"
    /\ \E privkey \in inputs.privkeys :
        LET r == new_builder(privkey)
        IN /\ arg' = Call("new_builder", <<privkey>>)
           /\ builder' = IF IsOk(r) THEN r.val ELSE builder
           /\ Returned(r, "builder")
    /\ UNCHANGED <<query, note, dm, wire, parsed>>

AddTag(inputs) ==
    /\ pc = "builder"
    /\ HasAddTag(builder)
    /\ \E tag \in inputs.tags :
        LET r == add_tag(builder, tag)
        IN /\ arg' = Call("add_tag", <<tag>>)
           /\ builder' = IF IsOk(r) THEN r.val ELSE builder
           /\ Returned(r, "builder")
    /\ UNCHANGED <<query, note, dm, wire, parsed>>

SetKind(inputs) ==
    /\ pc = "builder"
    /\ \E kind \in inputs.kinds :
        /\ arg' = Call("set_kind", <<kind>>)
        /\ builder' = set_kind(builder, kind)
        /\ Returned(Ok(builder'), "builder")
    /\ UNCHANGED <<query, note, dm, wire, parsed>>

Content(inputs) ==
    /\ pc = "builder"
    /\ \E c \in inputs.contents :
        /\ arg' = Call("content", <<c>>)
        /\ builder' = content(builder, c)
        /\ Returned(Ok(builder'), "builder")
    /\ UNCHANGED <<query, note, dm, wire, parsed>>

(* impl NoteBuilder<ZeroTags> *)
CreateAuth(inputs) ==
    /\ pc = "builder"
    /\ builder.build_status = 0
    /\ \E ch \in inputs.challenges, relay \in inputs.relays :
        LET r == create_auth(builder, ch, relay)
        IN /\ arg' = Call("create_auth", <<ch, relay>>)
           /\ builder' = IF IsOk(r) THEN r.val ELSE builder
           /\ Returned(r, "builder")
    /\ UNCHANGED <<query, note, dm, wire, parsed>>

CreateDm(inputs) ==
    /\ pc = "builder"
    /\ builder.build_status = 0
    /\ \E text \in inputs.texts, rcvr \in inputs.rcvrs, iv \in inputs.ivs :
        LET r == create_dm(builder, text, rcvr, iv)
        IN /\ arg' = Call("create_dm", <<text, rcvr, iv>>)
           /\ builder' = IF IsOk(r) THEN r.val ELSE builder
           /\ dm' = IF IsOk(r) THEN Some([text |-> text, rcvr |-> rcvr, iv |-> iv])
                    ELSE dm
           /\ Returned(r, "builder")
    /\ UNCHANGED <<query, note, wire, parsed>>

Build(inputs) ==
    /\ pc = "builder"
    /\ \E created_at \in inputs.times, aux_rnd \in inputs.aux :
        LET r == build(builder, created_at, aux_rnd)
        IN /\ arg' = Call("build", <<created_at, aux_rnd>>)
           /\ note' = IF IsOk(r) THEN r.val ELSE note
           /\ Returned(r, "built")
    /\ UNCHANGED <<query, builder, dm, wire, parsed>>

----------------------------------------------------------------------------
(* The calls on a built Note *)

(* enum ClientMsgKinds *)
MsgTypes == {"Event", "Req", "Auth", "Close"}

Serialize ==
    /\ pc = "built"
    /\ \E msg_type \in MsgTypes :
        /\ arg' = Call("serialize_to_relay", <<msg_type>>)
        /\ ret' = serialize_to_relay(note, msg_type)
        /\ pc' = "sent"
    /\ UNCHANGED <<query, builder, note, dm, wire, parsed>>

ReadDm(inputs) ==
    /\ pc = "built"
    /\ \E privkey \in inputs.readers :
        /\ arg' = Call("read_dm", <<privkey>>)
        /\ ret' = read_dm(note, privkey)
        /\ pc' = "read"
    /\ UNCHANGED <<query, builder, note, dm, wire, parsed>>

(* the event object of the note goes out *)
ToJson ==
    /\ pc = "built"
    /\ LET r == to_json(note)
       IN /\ arg' = Call("to_json", <<>>)
          /\ wire' = IF IsOk(r) THEN r.val ELSE wire
          /\ Returned(r, "wire")
    /\ UNCHANGED <<query, builder, note, dm, parsed>>

----------------------------------------------------------------------------
(* What a relay (or anyone between the two ends) may do to the bytes of an
   event object before they reach Note::try_from *)

(* 1-based position of the first byte after the key pattern *)
ValuePos(w, pat) == FirstIndex(w, pat).val + Len(pat) + 1

SetByte(w, i, c) == [w EXCEPT ![i] = c]

(* '1' keeps a hex field hex, 'g' does not *)
AlterChars == {49, 103}

HexFields == {id_str, pubkey_str, sig_str}

RelayAltersContent ==
    /\ pc = "wire"
    /\ LET i == ValuePos(wire, content_str)
       IN /\ wire[i] # QUOTE
          /\ wire' = SetByte(wire, i, IF wire[i] = 117 THEN 118 ELSE 117)
    /\ pc' = "relayed"
    /\ UNCHANGED <<query, builder, note, dm, parsed, arg, ret>>

RelayAltersHex ==
    /\ pc = "wire"
    /\ \E field \in HexFields, c \in AlterChars :
        LET i == ValuePos(wire, field)
        IN /\ wire[i] # c
           /\ wire' = SetByte(wire, i, c)
    /\ pc' = "relayed"
    /\ UNCHANGED <<query, builder, note, dm, parsed, arg, ret>>

RelayDropsBrace ==
    /\ pc = "wire"
    /\ wire' = DropLast(wire)
    /\ pc' = "relayed"
    /\ UNCHANGED <<query, builder, note, dm, parsed, arg, ret>>

(* k more sub-arrays at the end of the tags array, which to_json writes last *)
AddSubArrays(w, k) ==
    LET body == Sub(w, 0, Len(w) - 2)
        first == IF w[Len(w) - 2] = LBRACKET THEN extra_tag
                 ELSE <<COMMA>> \o extra_tag
        more == Flatten([j \in 1..(k - 1) |-> <<COMMA>> \o extra_tag])
    IN body \o first \o more \o <<RBRACKET, RBRACE>>

RelayAddsTags ==
    /\ pc = "wire"
    /\ \E k \in 1..MaxExtraTags : wire' = AddSubArrays(wire, k)
    /\ pc' = "relayed"
    /\ UNCHANGED <<query, builder, note, dm, parsed, arg, ret>>

Relay ==
    \/ RelayAltersContent
    \/ RelayAltersHex
    \/ RelayDropsBrace
    \/ RelayAddsTags

Parse ==
    /\ pc \in {"wire", "relayed"}
    /\ arg' = Call("Note::try_from", <<wire>>)
    /\ parsed' = Note_try_from(wire)
    /\ ret' = parsed'
    /\ pc' = "parsed"
    /\ UNCHANGED <<query, builder, note, dm, wire>>

----------------------------------------------------------------------------
(* Spec: the life of a note from new_builder to Note::try_from at the other
   end, with the inputs of the repository's tests.
   SpecBuild: the builder and the calls on the built Note, with the
   extreme inputs the types admit. *)

Init ==
    /\ pc = "start"
    /\ builder = NoteBuilder(0, 0, EmptyNote)
    /\ note = EmptyNote
    /\ dm = None
    /\ wire = <<>>
    /\ parsed = Idle
    /\ arg = Call("none", <<>>)
    /\ ret = Idle
    /\ query = Query_new

BuilderCalls(inputs) ==
    \/ NewBuilder(inputs)
    \/ AddTag(inputs)
    \/ SetKind(inputs)
    \/ Content(inputs)
    \/ CreateAuth(inputs)
    \/ CreateDm(inputs)
    \/ Build(inputs)

Next ==
    \/ BuilderCalls(TestInputs)
    \/ ToJson
    \/ Relay
    \/ Parse

Spec == Init /\ [][Next]_vars

NextBuild ==
    \/ BuilderCalls(WideInputs)
    \/ Serialize
    \/ ReadDm(WideInputs)

SpecBuild == Init /\ [][NextBuild]_vars

(* SpecTypeState: the calls on a NoteBuilder before build, with the extreme
   inputs the types admit. *)
NextTypeState ==
    \/ NewBuilder(WideInputs)
    \/ AddTag(WideInputs)
    \/ SetKind(WideInputs)
    \/ Content(WideInputs)
    \/ CreateAuth(WideInputs)
    \/ CreateDm(WideInputs)

SpecTypeState == Init /\ [][NextTypeState]_vars

----------------------------------------------------------------------------
(* SpecKinds: NoteKinds::from on every u16, serialize on what it returned,
   and to_decimal_str on u32 values around every digit count. *)

DecimalHalves == {0, 1, 9, 10, 99, 100, 152, 153, 999, 1000, 9999, 10000,
                  38527, 38528, 65534, 65535}

DecimalInputs == {U32(h, l) : h \in DecimalHalves, l \in DecimalHalves}

KindFrom ==
    /\ pc = "start"
    /\ \E value \in U16 :
        /\ arg' = Call("NoteKinds::from", <<value>>)
        /\ ret' = Ok(NoteKinds_from(value))
    /\ pc' = "kind"
    /\ UNCHANGED <<query, builder, note, dm, wire, parsed>>

KindSerialize ==
    /\ pc = "kind"
    /\ arg' = Call("NoteKinds::serialize", <<arg.in[1]>>)
    /\ ret' = NoteKinds_serialize(ret.val)
    /\ pc' = "serialized"
    /\ UNCHANGED <<query, builder, note, dm, wire, parsed>>

ToDecimalStr ==
    /\ pc = "start"
    /\ \E num \in DecimalInputs :
        /\ arg' = Call("to_decimal_str", <<num>>)
        /\ ret' = to_decimal_str(num)
    /\ pc' = "decimal"
    /\ UNCHANGED <<query, builder, note, dm, wire, parsed>>

NextKinds ==
    \/ KindFrom
    \/ KindSerialize
    \/ ToDecimalStr

SpecKinds == Init /\ [][NextKinds]_vars

----------------------------------------------------------------------------
(* SpecNip04: nip04::encrypt between two key pairs, then nip04::decrypt of
   what it returned by the recipient, by the sender and by a third party. *)

(* texts of every length up to MaxTextLen, and the lengths around the
   limits of the buffers *)
MaxTextLen == 34

Text(n) == [i \in 1..n |-> 97 + (i % 26)] \o <<>>

TextLens == (0..MaxTextLen) \cup {255, 256, 271, 272, 287, 288, 380, 383, 384, 400}

(* a text that is not ASCII: "h", e-acute, then 14 letters and e-acute *)
Accented == <<104, 195, 169>> \o Text(12) \o <<195, 169>>

(* e-acute alone: one character of two bytes *)
e_acute == <<195, 169>>

Texts == {Text(n) : n \in TextLens} \cup {Accented, e_acute}

SkA == 2 + 3
SkB == 3 * 3
SkC == 3 + 4

Pub(sk) == ModExp(GroupG, sk)

IVs == {Rep(7, BLOCK), [i \in 1..BLOCK |-> (37 * i) % 256] \o <<>>}

(* who calls decrypt: its own secret key and the key of the other party *)
Readers == {[name |-> "recipient", sk |-> SkB, pk |-> Pub(SkA)],
            [name |-> "sender", sk |-> SkA, pk |-> Pub(SkB)],
            [name |-> "stranger", sk |-> SkC, pk |-> Pub(SkA)]}

Encrypt ==
    /\ pc = "start"
    /\ \E text \in Texts, iv \in IVs :
        LET r == encrypt(SkA, Pub(SkB), text, iv)
        IN /\ arg' = Call("encrypt", <<SkA, Pub(SkB), text, iv>>)
           /\ dm' = Some([text |-> text, rcvr |-> Pub(SkB), iv |-> iv])
           /\ wire' = IF IsOk(r) THEN r.val ELSE wire
           /\ Returned(r, "encrypted")
    /\ UNCHANGED <<query, builder, note, parsed>>

Decrypt ==
    /\ pc = "encrypted"
    /\ \E reader \in Readers :
        /\ arg' = Call("decrypt", <<reader.name, reader.sk, reader.pk>>)
        /\ ret' = decrypt(reader.sk, reader.pk, wire)
    /\ pc' = "decrypted"
    /\ UNCHANGED <<query, builder, note, dm, wire, parsed>>

IV_SEP == <<63, 105, 118, 61>>

(* contents a DM note may carry instead of what encrypt wrote: the
   separator left out, the iv left out, the content as it is, and a
   separator or a second iv part more *)
Contents(w) ==
    LET parts == Split(w, IV_SEP)
    IN {parts[1] \o parts[2], parts[1], w,
        w \o IV_SEP, w \o IV_SEP \o parts[2], IV_SEP \o w \o IV_SEP}

DecryptContent ==
    /\ pc = "encrypted"
    /\ \E reader \in Readers, encrypted_content \in Contents(wire) :
        /\ arg' = Call("decrypt", <<reader.name, reader.sk, reader.pk, encrypted_content>>)
        /\ ret' = decrypt(reader.sk, reader.pk, encrypted_content)
    /\ pc' = "content decrypted"
    /\ UNCHANGED <<query, builder, note, dm, wire, parsed>>

NextNip04 ==
    \/ Encrypt
    \/ Decrypt
    \/ DecryptContent

SpecNip04 == Init /\ [][NextNip04]_vars

----------------------------------------------------------------------------
(* SpecQuery: a Query written as a struct literal, get_my_dms on it, its
   serialisation as a REQ frame, and close_subscription. *)

(* the longest list of the sampled queries, apart from the full ones *)
MaxListLen == 2

a64 == Rep(97, HEX_LEN)
b64 == Rep(98, HEX_LEN)

(* the first n of a, b, a, b, a *)
HexList(n) == [k \in 1..n |-> IF k % 2 = 1 THEN a64 ELSE b64] \o <<>>

(* the first n of IOT, Regular(1005), Regular(10000), ShortNote, DM *)
KindList(n) ==
    SubSeq(<<IOT, NoteKinds_from(1005), NoteKinds_from(10000), ShortNote, DM>>, 1, n)

Options(v) == {None, Some(v)}

QueryOf(lens, since, until, limit) ==
    [ids |-> HexList(lens[1]), authors |-> HexList(lens[2]),
     kinds |-> KindList(lens[5]), ref_events |-> HexList(lens[4]),
     ref_pks |-> HexList(lens[3]), since |-> since, until |-> until,
     limit |-> limit]

(* every combination of list lengths up to MaxListLen and of set and unset
   options *)
SmallQueries ==
    {QueryOf(lens, since, until, limit) :
        lens \in [1..5 -> 0..MaxListLen],
        since \in Options(U32(0, 10000)), until \in Options(U32Max),
        limit \in Options(U32(0, 10))}

(* queries at the capacity of the lists; the second fills the 1000 bytes
   of to_json's Vec exactly before the closing brace *)
FullQueries ==
    {QueryOf(<<5, 5, 5, 5, 5>>, None, None, None),
     [QueryOf(<<5, 5, 4, 0, 5>>, None, None, None)
        EXCEPT !.kinds = <<NoteKinds_from(10000), NoteKinds_from(10000),
                           NoteKinds_from(10000), NoteKinds_from(100),
                           NoteKinds_from(100)>>],
     QueryOf(<<5, 5, 4, 0, 0>>, None, None, Some(U32(0, 10))),
     QueryOf(<<0, 0, 5, 0, 5>>, None, None, None)}

sub_1 == <<115, 117, 98, 95, 49>>
LongestSubId == Rep(115, HEX_LEN)
SubIds == {sub_1, LongestSubId}

MakeQuery ==
    /\ pc = "start"
    /\ \E q \in SmallQueries \cup FullQueries :
        /\ query' = q
        /\ arg' = Call("Query", <<>>)
    /\ ret' = Idle
    /\ pc' = "query"
    /\ UNCHANGED <<builder, note, dm, wire, parsed>>

GetMyDms ==
    /\ pc = "query"
    /\ \E privkey \in {PRIVKEY, BadPrivkey} :
        LET r == get_my_dms(query, privkey)
        IN /\ arg' = Call("get_my_dms", <<privkey, query>>)
           /\ query' = r.query
           /\ ret' = r.ret
    /\ pc' = "dms"
    /\ UNCHANGED <<builder, note, dm, wire, parsed>>

QuerySerialize ==
    /\ pc \in {"query", "dms"}
    /\ \E subscription_id \in SubIds :
        LET r == Query_serialize_to_relay(query, subscription_id)
        IN /\ arg' = Call("Query::serialize_to_relay", <<subscription_id>>)
           /\ wire' = IF IsOk(r) THEN r.val ELSE wire
           /\ ret' = r
    /\ pc' = "req"
    /\ UNCHANGED <<builder, note, dm, parsed, query>>

CloseSubscription ==
    /\ pc = "req"
    /\ LET r == close_subscription(arg.in[1])
       IN /\ arg' = Call("close_subscription", <<arg.in[1]>>)
          /\ wire' = IF IsOk(r) THEN r.val ELSE wire
          /\ ret' = r
    /\ pc' = "closed"
    /\ UNCHANGED <<builder, note, dm, parsed, query>>

NextQuery ==
    \/ MakeQuery
    \/ GetMyDms
    \/ QuerySerialize
    \/ CloseSubscription

SpecQuery == Init /\ [][NextQuery]_vars

----------------------------------------------------------------------------
(* SpecRelay: a frame arrives from the relay and the client hands it to
   ResponseTypes::try_from, to one of the six typed parsers, or (an event
   object) to Note::try_from. *)

(* the note of tests::get_note with one tag, and the same without tags *)
TestNote ==
    build(add_tag(content(new_builder(PRIVKEY).val, esptest), l_bitcoin).val,
          test_time, Rep(0, 32)).val

NoTagNote == build(content(new_builder(PRIVKEY).val, esptest), test_time, Rep(0, 32)).val

TestObject == to_json(TestNote).val
NoTagObject == to_json(NoTagNote).val

(* bytes put into w before its 1-based position i *)
Insert(w, i, bytes) == SubSeq(w, 1, i - 1) \o bytes \o SubSeq(w, i, Len(w))

(* the object with a content of NOTE_SIZE + 1 bytes *)
LongContentObject ==
    Insert(TestObject, ValuePos(TestObject, content_str),
           Rep(97, NOTE_SIZE + 1 - Len(esptest)))

(* the object with the one tag ["aaa...a"] of TAG_SIZE + 1 bytes *)
LongTagObject ==
    Insert(NoTagObject, Len(NoTagObject) - 1,
           <<LBRACKET, QUOTE>> \o Rep(97, TAG_SIZE + 1) \o <<QUOTE, RBRACKET>>)

Objects == {TestObject, NoTagObject, LongContentObject, LongTagObject}

Spaced(sp) == IF sp THEN <<SPACE>> ELSE <<>>

AuthFrame(c, sp) == AUTH_STR \o Spaced(sp) \o Quoted(c) \o <<RBRACKET>>

EoseFrame(id, sp) == EOSE_STR \o Spaced(sp) \o Quoted(id) \o <<RBRACKET>>

NoticeFrame(m, sp) == NOTICE_STR \o Spaced(sp) \o Quoted(m) \o <<RBRACKET>>

(* ["EVENT","<sub_id>", <object>] as in tests::test_event *)
EventFrame(id, object) ==
    EVENT_STR \o Quoted(id) \o <<COMMA, SPACE>> \o object \o <<RBRACKET>>

(* ["COUNT", "<id>", {"count": <n>}] as in tests::test_count *)
CountFrame(id, n) ==
    COUNT_STR \o <<SPACE>> \o Quoted(id) \o <<44, 32, 123, 34, 99, 111, 117, 110, 116, 34, 58, 32>> \o n \o <<RBRACE, RBRACKET>>

(* ["OK", "<id>", <token>, "<info>"] as in tests::test_ok *)
OkFrame(id, token, info) ==
    OK_STR \o <<SPACE>> \o Quoted(id) \o <<COMMA, SPACE>> \o token
    \o <<COMMA, SPACE>> \o Quoted(info) \o <<RBRACKET>>

encrypt_me == <<101, 110, 99, 114, 121, 112, 116, 32, 109, 101>>
duplicate_event == <<100, 117, 112, 108, 105, 99, 97, 116, 101, 32, 101, 118, 101, 110, 116>>
true_token == <<116, 114, 117, 101>>
false_token == <<102, 97, 108, 115, 101>>

Challenges ==
    {<<>>, <<120>>, encrypt_me, Rep(99, CHALLENGE_STRING_SIZE),
     Rep(99, CHALLENGE_STRING_SIZE + 1), Rep(99, CHALLENGE_STRING_SIZE + 2)}

EventSubIds == {sub_1, LongestSubId, Rep(115, SUBSCRIPTION_ID_SIZE + 1)}

Messages == {duplicate_event, <<>>, Rep(105, MESSAGE_SIZE), Rep(105, MESSAGE_SIZE + 1)}

OkTokens == {true_token, false_token, <<110, 117, 108, 108>>, <<102, 97, 108, 115, 101, 121>>, <<116, 114, 117, 116, 104, 121>>, <<49>>}

OtherFrames == {<<>>, <<91, 34, 70, 79, 79, 34, 44, 34, 120, 34, 93>>, <<91, 34, 79, 75, 34, 93>>, <<91, 34, 97, 117, 116, 104, 34, 44, 34, 120, 34, 93>>}

Frames ==
    {AuthFrame(c, sp) : c \in Challenges, sp \in BOOLEAN}
    \cup {EoseFrame(id, sp) : id \in SubIds \cup {a64}, sp \in BOOLEAN}
    \cup {NoticeFrame(m, sp) : m \in Messages, sp \in BOOLEAN}
    \cup {EventFrame(id, object) : id \in EventSubIds, object \in Objects}
    \cup {CountFrame(a64, n) : n \in {<<53>>, <<54, 53, 53, 51, 54>>, <<120>>}}
    \cup {OkFrame(a64, token, info) : token \in OkTokens, info \in Messages}
    \cup Objects
    \cup OtherFrames

Receive ==
    /\ pc = "start"
    /\ \E frame \in Frames :
        /\ wire' = frame
        /\ arg' = Call("relay", <<>>)
    /\ pc' = "frame"
    /\ UNCHANGED <<query, builder, note, dm, parsed, ret>>

(* a parser was called on the frame and returned r *)
Parsed(name, r) ==
    /\ pc = "frame"
    /\ arg' = Call(name, <<wire>>)
    /\ ret' = r
    /\ parsed' = r
    /\ pc' = "typed"
    /\ UNCHANGED <<query, builder, note, dm, wire>>

ResponseType == Parsed("ResponseTypes", ResponseTypes_try_from(wire))

ParseAuth ==
    \E overflow_checks \in BOOLEAN :
        Parsed("AuthMessage", AuthMessage_try_from(wire, overflow_checks))

ParseCount == Parsed("CountMessage", CountMessage_try_from(wire))

ParseEose == Parsed("EoseMessage", EoseMessage_try_from(wire))

ParseEvent == Parsed("EventMessage", EventMessage_try_from(wire))

ParseNotice == Parsed("NoticeMessage", NoticeMessage_try_from(wire))

ParseOk == Parsed("OkMessage", OkMessage_try_from(wire))

ParseNote == Parsed("Note", Note_try_from(wire))

NextRelay ==
    \/ Receive
    \/ ResponseType
    \/ ParseAuth
    \/ ParseCount
    \/ ParseEose
    \/ ParseEvent
    \/ ParseNotice
    \/ ParseOk
    \/ ParseNote

SpecRelay == Init /\ [][NextRelay]_vars

----------------------------------------------------------------------------
(* SpecTags: notes built with up to five tags from a small pool, and
   get_tag on them with names that occur, names that do not, and names
   around the length of the search buffer. *)

p_x == <<112, 44, 120>>
pp_y == <<112, 112, 44, 121>>
p_bare == <<112>>
p_12345 == <<112, 44, 49, 44, 50, 44, 51, 44, 52, 44, 53>>
p_123456 == <<112, 44, 49, 44, 50, 44, 51, 44, 52, 44, 53, 44, 54>>

TagPool == {p_x, pp_y, p_bare, p_12345, p_123456}

TagNames == {<<>>, <<112>>, <<112, 112>>} \cup {Rep(110, k) : k \in (SEARCH_TAG_SIZE - 1)..(SEARCH_TAG_SIZE + 1)}

TagInputs ==
    [privkeys |-> {PRIVKEY},
     tags |-> TagPool,
     times |-> {test_time},
     aux |-> {Rep(0, 32)},
     names |-> TagNames]

GetTag(inputs) ==
    /\ pc = "built"
    /\ \E tag \in inputs.names :
        /\ arg' = Call("get_tag", <<tag>>)
        /\ ret' = get_tag(note, tag)
    /\ pc' = "tag read"
    /\ UNCHANGED <<query, builder, note, dm, wire, parsed>>

NextTags ==
    \/ NewBuilder(TagInputs)
    \/ AddTag(TagInputs)
    \/ Build(TagInputs)
    \/ GetTag(TagInputs)

SpecTags == Init /\ [][NextTags]_vars

----------------------------------------------------------------------------
(* SpecParse: event objects as other clients and relays write them, with
   the seven members in another order and with spaces between the tokens,
   handed to Note::try_from as they are and to EventMessage::try_from
   inside an EVENT frame. *)

hello_world == <<104, 101, 108, 108, 111, 32, 119, 111, 114, 108, 100>>
t_a_b == <<116, 44, 97, 32, 98>>

(* the content  say \"a b\"  : two quotes, each escaped as JSON requires *)
say_a_b == <<115, 97, 121, 32, 92, 34, 97, 32, 98, 92, 34>>

SpacedNote ==
    build(add_tag(content(new_builder(PRIVKEY).val, hello_world), t_a_b).val,
          test_time, Rep(0, 32)).val

EscapedNote == build(content(new_builder(PRIVKEY).val, say_a_b), test_time, Rep(0, 32)).val

(* the content  5\" x  : one escaped quote *)
five_inch == <<53, 92, 34, 32, 120>>

InchNote == build(content(new_builder(PRIVKEY).val, five_inch), test_time, Rep(0, 32)).val

ParseNotes == {TestNote, NoTagNote, SpacedNote, EscapedNote, InchNote}

FieldNames == <<"content", "created_at", "id", "kind", "pubkey", "sig", "tags">>

(* one token per byte: a number or a bracket may be split anywhere *)
Bytewise(bytes) == [i \in 1..Len(bytes) |-> <<bytes[i]>>] \o <<>>

(* the tokens of a tags array: brackets, commas and one string literal per
   comma-separated element of a tag *)
TagTokens(tags) ==
    LET elems(tag) == Split(tag, <<COMMA>>)
        one(tag) == <<<<LBRACKET>>>>
                    \o Flatten([k \in 1..Len(elems(tag)) |->
                           (IF k > 1 THEN <<<<COMMA>>>> ELSE <<>>) \o <<Quoted(elems(tag)[k])>>] \o <<>>)
                    \o <<<<RBRACKET>>>>
    IN <<<<LBRACKET>>>>
       \o Flatten([k \in 1..Len(tags) |->
              (IF k > 1 THEN <<<<COMMA>>>> ELSE <<>>) \o one(tags[k])] \o <<>>)
       \o <<<<RBRACKET>>>>

(* the tokens of one member of the object of n: the key as a string
   literal, the colon, and the value (a string literal is one token) *)
MemberTokens(n, field) ==
    LET key(name) == <<Quoted(name), <<58>>>>
    IN CASE field = "content" -> key(<<99, 111, 110, 116, 101, 110, 116>>) \o <<Quoted(IF n.content.some THEN n.content.val ELSE <<>>)>>
         [] field = "created_at" -> key(<<99, 114, 101, 97, 116, 101, 100, 95, 97, 116>>) \o Bytewise(to_decimal_str(n.created_at).val)
         [] field = "id" -> key(<<105, 100>>) \o <<Quoted(n.id)>>
         [] field = "kind" -> key(<<107, 105, 110, 100>>) \o Bytewise(NoteKinds_serialize(n.kind).val)
         [] field = "pubkey" -> key(<<112, 117, 98, 107, 101, 121>>) \o <<Quoted(n.pubkey)>>
         [] field = "sig" -> key(<<115, 105, 103>>) \o <<Quoted(n.sig)>>
         [] field = "tags" -> key(<<116, 97, 103, 115>>) \o TagTokens(n.tags)

(* the tokens of the complete object, its members in the given order *)
ObjectTokens(n, order) ==
    <<<<LBRACE>>>>
    \o Flatten([k \in 1..Len(order) |->
           (IF k > 1 THEN <<<<COMMA>>>> ELSE <<>>) \o MemberTokens(n, order[k])] \o <<>>)
    \o <<<<RBRACE>>>>

(* how many spaces stand before the k-th token *)
Gaps == {"none", "every", "alternate"}

GapBefore(gap, k) ==
    IF k = 1 \/ gap = "none" THEN <<>>
    ELSE IF gap = "every" THEN <<SPACE>>
    ELSE Rep(SPACE, 2 * (k % 2))

(* the object of n: spaces only between tokens, never inside a string
   literal *)
Object(n, order, gap) ==
    LET toks == ObjectTokens(n, order)
    IN Flatten([k \in 1..Len(toks) |-> GapBefore(gap, k) \o toks[k]] \o <<>>)

(* the order of to_json, its rotations, and the same reversed: every
   member is first, last and next to every other in some order *)
Rotation(seq, r) == [k \in 1..Len(seq) |-> seq[((k + r - 1) % Len(seq)) + 1]] \o <<>>

Orders ==
    {Rotation(FieldNames, r) : r \in 0..6} \cup {Rotation(Reverse(FieldNames), r) : r \in 0..6}

TryFromObject ==
    /\ pc = "start"
    /\ \E n \in ParseNotes, order \in Orders, gap \in Gaps :
        /\ note' = n
        /\ wire' = Object(n, order, gap)
        /\ arg' = Call("Note::try_from", <<order, gap>>)
        /\ ret' = Note_try_from(wire')
    /\ parsed' = ret'
    /\ pc' = "object parsed"
    /\ UNCHANGED <<query, builder, dm>>

TryFromEvent ==
    /\ pc = "start"
    /\ \E n \in ParseNotes, order \in Orders, gap \in Gaps, sub_id \in SubIds :
        /\ note' = n
        /\ wire' = EventFrame(sub_id, Object(n, order, gap))
        /\ arg' = Call("EventMessage::try_from", <<order, gap, sub_id>>)
        /\ ret' = EventMessage_try_from(wire')
    /\ parsed' = ret'
    /\ pc' = "event parsed"
    /\ UNCHANGED <<query, builder, dm>>

NextParse ==
    \/ TryFromObject
    \/ TryFromEvent

SpecParse == Init /\ [][NextParse]_vars

----------------------------------------------------------------------------
(* Properties *)

(* the id law: the id is the lowercase hex SHA-256 of the preimage of the
   note's own fields *)
IdLaw(n) ==
    LET h == to_hash_str(n)
    IN IsOk(h) /\ n.id = HexEncode(Sha256(h.val))

(* the number a string of at most five decimal digits denotes *)
DecimalValue(str) ==
    LET n == Len(str)
        term(i) == IF i <= n THEN (str[i] - 48) * (10 ^ (n - i)) ELSE 0
    IN term(1) + term(2) + term(3) + term(4) + term(5)

(* str is the decimal representation of the 16-bit value v *)
IsDecimalOf(str, v) ==
    /\ Len(str) \in 1..5
    /\ \A i \in 1..Len(str) : IsDigit(str[i])
    /\ Len(str) > 1 => str[1] # 48
    /\ DecimalValue(str) = v

KindVariantOf(v) ==
    IF v = 1 THEN "ShortNote"
    ELSE IF v = 4 THEN "DM"
    ELSE IF v = 5732 THEN "IOT"
    ELSE IF v = 22242 THEN "Auth"
    ELSE IF v \in 1000..9999 THEN "Regular"
    ELSE IF v \in 10000..19999 THEN "Replaceable"
    ELSE IF v \in 20000..29999 THEN "Ephemeral"
    ELSE IF v \in 30000..39999 THEN "ParameterizedReplaceable"
    ELSE "Custom"

(* C8: for every u16 value v, NoteKinds::from(v) is the variant the table
   names (the four named kinds before the ranges, Custom for the rest), and
   serialize() of that variant is the decimal representation of v. *)
C8_KindMapping ==
    /\ pc = "kind" => ret.val.variant = KindVariantOf(arg.in[1])
    /\ pc = "serialized" => /\ IsOk(ret)
                            /\ IsDecimalOf(ret.val, arg.in[1])

C8_Witness ==
    /\ pc = "serialized"
    /\ arg.in[1] = 22242
    /\ ret.val = <<50, 50, 50, 52, 50>>

(* C3: the Note returned by build carries the created_at it was given and
   the pubkey of the builder's key pair, with the kind, tags and content set
   before; its id is the hex SHA-256 of the preimage of exactly these
   fields; its sig is a signature of that id under the pubkey; and the id is
   the same for every aux_rand. *)
C3_BuildOrder ==
    pc = "built" =>
        LET created_at == arg.in[1]
            pk == XOnlyOfSecret(builder.keypair)
        IN /\ note.created_at = created_at
           /\ note.pubkey = HexEncode(pk)
           /\ note.kind = builder.note.kind
           /\ note.tags = builder.note.tags
           /\ note.content = builder.note.content
           /\ IdLaw(note)
           /\ VerifySchnorr(HexDecode(note.sig, 64).val,
                            HexDecode(note.id, 32).val, Dec32(pk))
           /\ \A aux_rnd \in WideInputs.aux :
                build(builder, created_at, aux_rnd).val.id = note.id

C3_Witness ==
    /\ pc = "built"
    /\ arg.in[2] = Rep(1, 32)
    /\ Len(note.tags) = 2
    /\ note.content = Some(esptest)
    /\ IdLaw(note)

(* the sub-arrays of the tags array of an event object that to_json wrote:
   each ends with a quote and a closing bracket *)
SubArrays(w) ==
    Cardinality(Occurrences(Sub(w, FirstIndex(w, tags_str).val, Len(w)),
                            <<QUOTE, RBRACKET>>))

(* C7: the builder never holds more than five tags, its tag-count type is
   the number of tags it holds, add_tag never fails, no built Note has more
   than five tags; and Note::try_from on an event object whose tags array
   holds six or more sub-arrays returns Err(TooManyTags). *)
C7_TagCap ==
    /\ Len(builder.note.tags) <= MAX_TAGS
    /\ builder.build_status = Len(builder.note.tags)
    /\ Len(note.tags) <= MAX_TAGS
    /\ ~(arg.op = "add_tag" /\ ~IsOk(ret))
    /\ (pc = "parsed" /\ SubArrays(wire) >= MAX_TAGS + 1)
          => IsErr(parsed, "TooManyTags")

C7_Witness ==
    /\ pc = "parsed"
    /\ Len(note.tags) = MAX_TAGS
    /\ SubArrays(wire) = MAX_TAGS + 1
    /\ IsErr(parsed, "TooManyTags")

(* C1: every Note that Note::try_from returns Ok satisfies the id law: its
   id is the hex SHA-256 of the preimage of its own pubkey, created_at,
   kind, tags and content. *)
C1_ParsedIdLaw ==
    (pc = "parsed" /\ IsOk(parsed)) => IdLaw(parsed.val)

(* the id, pubkey and sig values of an event object, read at their keys *)
WireField(w, pat, n) == Sub(w, ValuePos(w, pat) - 1, ValuePos(w, pat) - 1 + n)

WireSigVerifies(w) ==
    IsOk(validate_signature([EmptyNote EXCEPT
            !.id = WireField(w, id_str, HEX_LEN),
            !.pubkey = WireField(w, pubkey_str, HEX_LEN),
            !.sig = WireField(w, sig_str, SIG_HEX_LEN)]))

(* C2: every Note returned by build or returned Ok by Note::try_from passes
   validate_signature; and an event object whose sig does not verify over
   its id under its pubkey makes Note::try_from return
   Err(InvalidSignature). *)
C2_SignatureSurfaced ==
    /\ pc = "built" => IsOk(validate_signature(note))
    /\ (pc = "parsed" /\ IsOk(parsed)) => IsOk(validate_signature(parsed.val))
    /\ (pc = "parsed" /\ ~WireSigVerifies(wire)) => IsErr(parsed, "InvalidSignature")

(* C4: Note::try_from applied to the bytes of to_json() of a built Note
   returns Ok of a Note equal to it in every field. *)
C4_JsonRoundTrip ==
    (pc = "parsed" /\ IsOk(to_json(note)) /\ wire = to_json(note).val)
        => (IsOk(parsed) /\ parsed.val = note)

(* C5: for every text of at most 380 bytes encrypt returns Ok, and decrypt
   by the recipient (its own secret key, the sender's public key) of what
   encrypt returned is Ok of the text. *)
C5_Nip04RoundTrip ==
    /\ (arg.op = "encrypt" /\ Len(arg.in[3]) <= 380) => IsOk(ret)
    /\ (pc = "decrypted" /\ arg.in[1] = "recipient" /\ Len(dm.val.text) <= 380)
          => (IsOk(ret) /\ ret.val = dm.val.text)

(* the built note is the DM that create_dm made: its first tag names the
   receiver and its content is the encrypted text *)
IsTheDm ==
    /\ dm.some
    /\ Len(note.tags) >= 1
    /\ note.tags[1] = <<112, 44>> \o dm.val.rcvr
    /\ LET c == encrypt(builder.keypair,
                        XOnlyFromSlice(HexDecode(dm.val.rcvr, 32).val).val,
                        dm.val.text, dm.val.iv)
       IN IsOk(c) /\ note.content = Some(c.val)

(* the private key is the one of the public key written in hex *)
OwnsKey(privkey, pubkey_hex) ==
    LET sk == SecretKeyFromStr(privkey)
    IN IsOk(sk) /\ HexEncode(XOnlyOfSecret(sk.val)) = pubkey_hex

(* C6: when the owner of the key named in the first p tag of a DM note calls
   read_dm with its private key, the result is Ok of the text that was given
   to create_dm. *)
C6_RecipientReadsDm ==
    (pc = "read" /\ IsTheDm /\ OwnsKey(arg.in[1], dm.val.rcvr))
        => (IsOk(ret) /\ ret.val = dm.val.text)

(* seqs joined with sep between them *)
Join(seqs, sep) ==
    Flatten([k \in 1..Len(seqs) |-> IF k = 1 THEN seqs[1] ELSE sep \o seqs[k]] \o <<>>)

(* one bracketed sub-array per tag, every comma-separated element quoted *)
TagsFormat(tags) ==
    LET quoted(tag) ==
            LET elems == Split(tag, <<COMMA>>)
            IN Join([k \in 1..Len(elems) |-> <<QUOTE>> \o elems[k] \o <<QUOTE>>] \o <<>>,
                    <<COMMA>>)
    IN <<LBRACKET>>
       \o Join([t \in 1..Len(tags) |-> <<LBRACKET>> \o quoted(tags[t]) \o <<RBRACKET>>] \o <<>>,
               <<COMMA>>)
       \o <<RBRACKET>>

ContentBytes(n) == IF n.content.some THEN n.content.val ELSE <<>>

(* [0,"<pubkey>",<created_at>,<kind>,<tags>,"<content>"] *)
HashStrFormat(n) ==
    <<91, 48, 44, 34>> \o n.pubkey \o <<34, 44>>
    \o to_decimal_str(n.created_at).val \o <<44>>
    \o to_decimal_str(U32OfU16(NoteKinds_number(n.kind))).val \o <<44>>
    \o TagsFormat(n.tags) \o <<44, 34>> \o ContentBytes(n) \o <<34, 93>>

(* the Note that build hands to to_hash_str *)
NoteToHash ==
    [builder.note EXCEPT !.created_at = arg.in[1],
                         !.pubkey = HexEncode(XOnlyOfSecret(builder.keypair))]

(* C9: to_hash_str of every Note returns exactly
   [0,"<pubkey>",<created_at>,<kind>,<tags>,"<content>"]. *)
C9_HashStrFormat ==
    arg.op = "build" =>
        LET r == to_hash_str(NoteToHash)
        IN IsOk(r) /\ r.val = HashStrFormat(NoteToHash)

(* the object with its keys once each, in the order content, created_at,
   id, kind, pubkey, sig, tags *)
JsonFormat(n) ==
    <<123, 34, 99, 111, 110, 116, 101, 110, 116, 34, 58, 34>> \o ContentBytes(n)
    \o <<34, 44, 34, 99, 114, 101, 97, 116, 101, 100, 95, 97, 116, 34, 58>>
    \o to_decimal_str(n.created_at).val
    \o <<44, 34, 105, 100, 34, 58, 34>> \o n.id
    \o <<34, 44, 34, 107, 105, 110, 100, 34, 58>>
    \o to_decimal_str(U32OfU16(NoteKinds_number(n.kind))).val
    \o <<44, 34, 112, 117, 98, 107, 101, 121, 34, 58, 34>> \o n.pubkey
    \o <<34, 44, 34, 115, 105, 103, 34, 58, 34>> \o n.sig
    \o <<34, 44, 34, 116, 97, 103, 115, 34, 58>> \o TagsFormat(n.tags)
    \o <<125>>

RelayFormat(n, msg_type) ==
    (IF msg_type = "Event" THEN <<91, 34, 69, 86, 69, 78, 84, 34, 44>>
     ELSE <<91, 34, 65, 85, 84, 72, 34, 44>>)
    \o JsonFormat(n) \o <<93>>

(* C10: to_json of every Note is the object in the fixed key order, and
   serialize_to_relay wraps it as ["EVENT",<object>] or ["AUTH",<object>]. *)
C10_JsonFormat ==
    /\ pc = "built" =>
          LET r == to_json(note) IN IsOk(r) /\ r.val = JsonFormat(note)
    /\ (pc = "sent" /\ arg.in[1] \in {"Event", "Auth"}) =>
          (IsOk(ret) /\ ret.val = RelayFormat(note, arg.in[1]))

(* the bytes of to_hash_str's result from the [ that opens the tags
   element to the ] that closes it: what follows [0,"<pubkey>",<created_at>,
   <kind>, and precedes ,"<content>"] *)
HashTagsElement(n, out) ==
    LET lead == 4 + HEX_LEN + 2 + Len(to_decimal_str(n.created_at).val) + 1
                + Len(NoteKinds_serialize(n.kind).val) + 1
        trail == 2 + Len(ContentBytes(n)) + 2
    IN Sub(out, lead, Len(out) - trail)

(* the bytes of to_json's result after "tags": up to the closing brace *)
JsonTagsArray(n, out) ==
    LET lead == 12 + Len(ContentBytes(n)) + 15
                + Len(to_decimal_str(n.created_at).val) + 7 + HEX_LEN + 9
                + Len(NoteKinds_serialize(n.kind).val) + 11 + HEX_LEN + 9
                + SIG_HEX_LEN + 9
    IN Sub(out, lead, Len(out) - 1)

(* C11: for every Note for which both writers return, the tags array in
   the result of to_json is byte for byte the tags element in the result
   of to_hash_str, and it is the bracketed list of quoted elements. *)
C11_TagsEncodedAlike ==
    (pc = "built" /\ IsOk(to_json(note)) /\ IsOk(to_hash_str(note))) =>
        /\ JsonTagsArray(note, to_json(note).val)
               = HashTagsElement(note, to_hash_str(note).val)
        /\ JsonTagsArray(note, to_json(note).val) = TagsFormat(note.tags)

(* a built note with two tags of different element counts, both written *)
C11_Witness ==
    /\ pc = "built"
    /\ Len(note.tags) >= 2
    /\ \E i, j \in 1..Len(note.tags) :
          Len(Split(note.tags[i], <<COMMA>>)) # Len(Split(note.tags[j], <<COMMA>>))
    /\ IsOk(to_json(note)) /\ IsOk(to_hash_str(note))

(* the bytes of a REQ frame between ["REQ","<id>", and the final ] *)
FilterObject(frame, id) == Sub(frame, 8 + Len(id) + 2, Len(frame) - 1)

(* key:[e1,e2,...] *)
ListMember(key, elems) ==
    key \o <<58, LBRACKET>> \o Join(elems, <<COMMA>>) \o <<RBRACKET>>

(* the filter object of q: the present members in the order id, authors,
   #p, #e, kinds, since, until, limit with one comma between two of them;
   the elements of #e closed by a quote or not *)
FilterLayout(q, e_closed) ==
    LET quoted(vals) == [k \in 1..Len(vals) |-> Quoted(vals[k])] \o <<>>
        events == [k \in 1..Len(q.ref_events) |->
                      <<QUOTE>> \o q.ref_events[k]
                      \o (IF e_closed THEN <<QUOTE>> ELSE <<>>)] \o <<>>
        kinds == [k \in 1..Len(q.kinds) |->
                     to_decimal_str(U32OfU16(NoteKinds_number(q.kinds[k]))).val] \o <<>>
        all == << [on |-> Len(q.ids) > 0,
                   is |-> ListMember(<<34, 105, 100, 34>>, quoted(q.ids))],
                  [on |-> Len(q.authors) > 0,
                   is |-> ListMember(<<34, 97, 117, 116, 104, 111, 114, 115, 34>>,
                                     quoted(q.authors))],
                  [on |-> Len(q.ref_pks) > 0,
                   is |-> ListMember(<<34, 35, 112, 34>>, quoted(q.ref_pks))],
                  [on |-> Len(q.ref_events) > 0,
                   is |-> ListMember(<<34, 35, 101, 34>>, events)],
                  [on |-> Len(q.kinds) > 0,
                   is |-> ListMember(<<34, 107, 105, 110, 100, 115, 34>>, kinds)],
                  [on |-> q.since.some,
                   is |-> <<34, 115, 105, 110, 99, 101, 34, 58>>
                          \o (IF q.since.some THEN to_decimal_str(q.since.val).val ELSE <<>>)],
                  [on |-> q.until.some,
                   is |-> <<34, 117, 110, 116, 105, 108, 34, 58>>
                          \o (IF q.until.some THEN to_decimal_str(q.until.val).val ELSE <<>>)],
                  [on |-> q.limit.some,
                   is |-> <<34, 108, 105, 109, 105, 116, 34, 58>>
                          \o (IF q.limit.some THEN to_decimal_str(q.limit.val).val ELSE <<>>)] >>
        present == SelectSeq(all, LAMBDA m : m.on)
    IN <<LBRACE>>
       \o Join([k \in 1..Len(present) |-> present[k].is] \o <<>>, <<COMMA>>)
       \o <<RBRACE>>

(* C12: the filter object of every REQ frame lists the present members in
   the order id, authors, #p, #e, kinds, since, until, limit, leaves out
   empty lists and unset options, has exactly one comma between two
   members and between two elements, and none at either end. *)
C12_FilterMembers ==
    (pc = "req" /\ IsOk(ret)) =>
        \E e_closed \in BOOLEAN :
            FilterObject(ret.val, arg.in[1]) = FilterLayout(query, e_closed)

(* a frame whose object has lists of two elements, a list left out in
   between, and set options next to an unset one *)
C12_Witness ==
    /\ pc = "req" /\ IsOk(ret)
    /\ Len(query.ids) = 2 /\ Len(query.authors) = 0 /\ Len(query.ref_pks) = 2
    /\ Len(query.kinds) = 2
    /\ query.since.some /\ ~query.until.some /\ query.limit.some

(* C13: in the filter object every element of ids, authors, #p and #e is
   its 64 bytes between two double quotes, every kind a bare decimal. *)
C13_ElementsQuoted ==
    (pc = "req" /\ IsOk(ret)) =>
        FilterObject(ret.val, arg.in[1]) = FilterLayout(query, TRUE)

ReqFrame(id, object) ==
    <<91, 34, 82, 69, 81, 34, 44, 34>> \o id \o <<QUOTE, COMMA>> \o object \o <<RBRACKET>>

CloseFrame(id) ==
    <<91, 34, 67, 76, 79, 83, 69, 34, 44, 34>> \o id \o <<QUOTE, RBRACKET>>

(* C14: for a subscription id of 1 to 64 ASCII characters neither call
   panics, close_subscription returns ["CLOSE","<id>"], and
   Query::serialize_to_relay returns ["REQ","<id>",<filter object>]
   whenever that frame fits in 1000 bytes. *)
C14_ReqAndCloseFrames ==
    /\ pc = "req" =>
          /\ ~IsPanic(ret)
          /\ \E e_closed \in BOOLEAN :
                LET frame == ReqFrame(arg.in[1], FilterLayout(query, e_closed))
                IN /\ IsOk(ret) => ret.val = frame
                   /\ Len(frame) <= JSON_SIZE => IsOk(ret)
    /\ pc = "closed" => (IsOk(ret) /\ ret.val = CloseFrame(arg.in[1]))

(* the six frame types and the name each frame carries *)
TypeNames ==
    [Auth |-> <<65, 85, 84, 72>>, Count |-> <<67, 79, 85, 78, 84>>, Eose |-> <<69, 79, 83, 69>>, Event |-> <<69, 86, 69, 78, 84>>,
     Notice |-> <<78, 79, 84, 73, 67, 69>>, Ok |-> <<79, 75>>]

(* the literal prefix of a frame of type t: ["NAME", *)
PrefixOf(t) == <<LBRACKET, QUOTE>> \o TypeNames[t] \o <<QUOTE, COMMA>>

(* the types whose prefix the frame starts with *)
TypesOf(frame) == {t \in DOMAIN TypeNames : StartsWith(frame, PrefixOf(t))}

ParserOf ==
    [Auth |-> "AuthMessage", Count |-> "CountMessage", Eose |-> "EoseMessage",
     Event |-> "EventMessage", Notice |-> "NoticeMessage", Ok |-> "OkMessage"]

(* C15: ResponseTypes::try_from returns the type whose literal prefix the
   frame starts with and Err(InvalidType) when it starts with none of the
   six; a typed parser given a frame of another type returns
   Err(TypeNotAccepted). *)
C15_FrameDiscrimination ==
    pc = "typed" =>
        /\ arg.op = "ResponseTypes" =>
              /\ \A t \in DOMAIN TypeNames :
                    (IsOk(ret) /\ ret.val = t) <=> StartsWith(wire, PrefixOf(t))
              /\ TypesOf(wire) = {} <=> IsErr(ret, "InvalidType")
        /\ \A t \in DOMAIN TypeNames :
              (arg.op = ParserOf[t] /\ TypesOf(wire) # {} /\ t \notin TypesOf(wire))
                  => IsErr(ret, "TypeNotAccepted")

(* a typed parser was given a frame of another type, and the discriminator
   a frame of no type *)
C15_Witness ==
    /\ pc = "typed"
    /\ \/ arg.op = "OkMessage" /\ TypesOf(wire) = {"Auth"}
          /\ IsErr(ret, "TypeNotAccepted")
       \/ arg.op = "ResponseTypes" /\ TypesOf(wire) = {} /\ wire # <<>>
          /\ IsErr(ret, "InvalidType")

(* C16: AuthMessage::try_from of ["AUTH","<c>"], c of 1 to 64 characters,
   returns Ok with challenge_string = c. *)
C16_AuthChallenge ==
    \A c \in Challenges :
        (/\ pc = "typed" /\ arg.op = "AuthMessage"
         /\ Len(c) \in 1..CHALLENGE_STRING_SIZE
         /\ wire = AuthFrame(c, FALSE))
            => (IsOk(ret) /\ ret.val.challenge_string = c)

(* C17: OkMessage::try_from of ["OK", "<id>", <token>, "<info>"] returns
   accepted = TRUE for the token true, FALSE for false, with event_id = id
   and info = info, and Err(MalformedContent) for every other token. *)
C17_OkBoolean ==
    \A token \in OkTokens, info \in Messages :
        (/\ pc = "typed" /\ arg.op = "OkMessage"
         /\ Len(info) <= MESSAGE_SIZE
         /\ wire = OkFrame(a64, token, info))
            => IF token \in {true_token, false_token}
               THEN /\ IsOk(ret)
                    /\ ret.val = [event_id |-> a64,
                                  accepted |-> (token = true_token),
                                  info |-> info]
               ELSE IsErr(ret, "MalformedContent")

(* C18: EoseMessage::try_from of the EOSE frame that carries a
   subscription id of 1 to 64 characters returns Ok with that id, as
   EventMessage::try_from does for an EVENT frame. *)
C18_SubscriptionIds ==
    \A id \in SubIds :
        /\ (/\ pc = "typed" /\ arg.op = "EoseMessage"
            /\ \E sp \in BOOLEAN : wire = EoseFrame(id, sp))
              => (IsOk(ret) /\ ret.val.subscription_id = id)
        /\ (/\ pc = "typed" /\ arg.op = "EventMessage"
            /\ wire = EventFrame(id, TestObject))
              => (IsOk(ret) /\ ret.val.subscription_id = id)

(* the frame holds a string field longer than its String *)
Oversized(op, frame) ==
    \/ /\ op = "AuthMessage"
       /\ \E c \in Challenges, sp \in BOOLEAN :
            Len(c) > CHALLENGE_STRING_SIZE /\ frame = AuthFrame(c, sp)
    \/ /\ op = "NoticeMessage"
       /\ \E m \in Messages, sp \in BOOLEAN :
            Len(m) > MESSAGE_SIZE /\ frame = NoticeFrame(m, sp)
    \/ /\ op = "OkMessage"
       /\ \E info \in Messages, token \in {true_token, false_token} :
            Len(info) > MESSAGE_SIZE /\ frame = OkFrame(a64, token, info)
    \/ /\ op = "EventMessage"
       /\ \E id \in EventSubIds :
            Len(id) > SUBSCRIPTION_ID_SIZE /\ frame = EventFrame(id, TestObject)
    \/ /\ op = "Note"
       /\ frame \in {LongContentObject, LongTagObject}

(* C19: a parser given a frame with an oversized string field returns
   Err(ContentOverflow). *)
C19_OversizedFields ==
    (pc = "typed" /\ Oversized(arg.op, wire)) => IsErr(ret, "ContentOverflow")

(* the wire is the object of the built note, which Note::try_from accepts,
   with one byte of the id value replaced *)
IdTampered ==
    /\ pc = "parsed"
    /\ IsOk(to_json(note))
    /\ LET object == to_json(note).val
           first == ValuePos(object, id_str)
       IN /\ Len(wire) = Len(object)
          /\ \E k \in first..(first + HEX_LEN - 1) :
                /\ wire[k] # object[k]
                /\ wire = SetByte(object, k, wire[k])
          /\ IsOk(Note_try_from(object))

(* C20: replacing one byte of the id value of an accepted event object
   makes Note::try_from return Err(InvalidSignature). *)
C20_IdTampering ==
    IdTampered => IsErr(parsed, "InvalidSignature")

(* C21: decrypt of a content in which the literal ?iv= does not occur
   exactly once (one part, or three and more) returns
   Err(MalformedContent). *)
C21_SplitInTwo ==
    (pc = "content decrypted" /\ Cardinality(Occurrences(arg.in[4], IV_SEP)) # 1)
        => IsErr(ret, "MalformedContent")

(* C22: Note::try_from of a complete event object returns the same result
   for every order of the seven members and every insertion of spaces
   outside string literals, namely that of the object as to_json writes
   it, and a returned Note has the content of the object, spaces
   included. *)
C22_OrderAndSpaces ==
    pc = "object parsed"
        => /\ ret = Note_try_from(Object(note, FieldNames, "none"))
           /\ IsOk(ret) => ret.val.content = note.content

challenge_comma == <<99, 104, 97, 108, 108, 101, 110, 103, 101, 44>>
relay_comma == <<114, 101, 108, 97, 121, 44>>

(* C23: every create_auth call is made on a builder in the ZeroTags state;
   when challenge,<challenge> and relay,<relay url> both fit into a
   150-byte tag it returns Ok and the builder then holds exactly these two
   tags in this order, kind Auth and the TwoTags state, all other fields
   as before; otherwise it returns Err(ContentOverflow) and does not
   panic. *)
C23_CreateAuth ==
    [][arg'.op = "create_auth" =>
        LET fits == /\ Len(challenge_comma) + Len(arg'.in[1]) <= TAG_SIZE
                    /\ Len(relay_comma) + Len(arg'.in[2]) <= TAG_SIZE
        IN /\ builder.build_status = 0
           /\ fits => /\ IsOk(ret')
                       /\ builder'.note.tags = <<challenge_comma \o arg'.in[1], relay_comma \o arg'.in[2]>>
                       /\ builder'.note.kind = Auth
                       /\ NoteKinds_number(builder'.note.kind) = 22242
                       /\ builder'.build_status = 2
                       /\ builder' = [builder EXCEPT !.build_status = 2, !.note.tags = builder'.note.tags, !.note.kind = Auth]
           /\ ~fits => IsErr(ret', "ContentOverflow")]_vars

(* create_auth returned Ok and three add_tag calls followed: the builder
   is in the FiveTags state with the two tags of create_auth first *)
C23_Witness ==
    /\ pc = "builder"
    /\ builder.build_status = 5
    /\ builder.note.kind = Auth
    /\ builder.note.tags[1] = challenge_comma \o challenge
    /\ builder.note.tags[2] = relay_comma \o relay_url

(* the comma-separated elements of a tag *)
Elements(tag) == Split(tag, <<COMMA>>)

(* one entry per tag whose first element is name, in tag order: the
   elements after the name *)
TagValues(tags, name) ==
    LET hits == SelectSeq(tags, LAMBDA t : Elements(t)[1] = name)
    IN [k \in 1..Len(hits) |-> Tail(Elements(hits[k]))] \o <<>>

(* C24: get_tag(name) on a Note with at most 5 tags returns Ok of one
   entry per tag whose first element equals name, in tag order, each entry
   the remaining elements of the tag; a name that does not fit the search
   buffer together with its comma returns Err(TagNameTooLong); no call
   panics. *)
C24_GetTag ==
    pc = "tag read"
        => IF Len(arg.in[1]) + 1 > SEARCH_TAG_SIZE
           THEN IsErr(ret, "TagNameTooLong")
           ELSE ret = Ok(TagValues(note.tags, arg.in[1]))

(* C25: for every Note the builder produces (content of at most 400
   bytes, at most 5 tags of at most 150 bytes) no write of to_hash_str
   (called by build through set_id) goes past its 1536 bytes and no push
   of to_json / serialize_to_relay fails on its 1000-byte Vec: neither
   call panics. *)
C25_BufferBounds ==
    arg.op \in {"build", "serialize_to_relay"} => ~IsPanic(ret)

(* C26: EventMessage::try_from of ["EVENT","<sub_id>", <object>], sub_id
   of 1 to 64 characters, returns what Note::try_from returns for the
   object, in every order of its seven keys: the error of Note::try_from,
   or Ok of sub_id and the same Note, whose content is that of the object
   with its spaces. *)
C26_EventDelegation ==
    (pc = "event parsed" /\ Len(arg.in[3]) \in 1..SUBSCRIPTION_ID_SIZE)
        => LET n == Note_try_from(Object(note, arg.in[1], arg.in[2]))
           IN IF IsOk(n)
              THEN /\ ret = Ok([subscription_id |-> arg.in[3], note |-> n.val])
                   /\ ret.val.note.content = note.content
              ELSE ret = n

(* the blocks that encrypt handed to the cipher, recovered from the
   content it returned *)
PaddedText(w, iv) ==
    LET enc == Base64Decode(Split(w, IV_SEP)[1], MAX_DM_SIZE).val
    IN DecryptBlocks(generate_shared_key(SkA, Pub(SkB)).val, enc, Len(enc) \div BLOCK, iv)

(* C27: for a text of n bytes that encrypt accepted, the blocks it
   encrypted are floor(n/16)+1 in number and hold the text followed by
   16-(n mod 16) bytes of value 16-(n mod 16), and the recipient's decrypt
   removes exactly this padding and returns n bytes. *)
C27_PaddingRoundTrip ==
    LET n == Len(dm.val.text)
        pad == BLOCK - (n % BLOCK)
    IN /\ pc = "encrypted"
            => /\ Len(PaddedText(wire, dm.val.iv)) = BLOCK * ((n \div BLOCK) + 1)
               /\ PaddedText(wire, dm.val.iv) = dm.val.text \o Rep(pad, pad)
       /\ (pc = "decrypted" /\ arg.in[1] = "recipient")
            => (IsOk(ret) /\ Len(ret.val) = n)

(* C28: in every builder state reachable through add_tag, create_auth,
   create_dm, content and set_kind the number of tags in the note is the
   count the type state names and at most 5; every add_tag call returns
   (its push never fails) and advances the state by one; content and
   set_kind leave the tags and the type state as they were. *)
C28_TypeState ==
    [][/\ builder.build_status = Len(builder.note.tags)
       /\ builder'.build_status = Len(builder'.note.tags)
       /\ builder'.build_status \in 0..MAX_TAGS
       /\ arg'.op = "add_tag"
            => /\ IsOk(ret')
               /\ builder'.build_status = builder.build_status + 1
               /\ builder'.note.tags = Append(builder.note.tags, arg'.in[1])
       /\ arg'.op \in {"content", "set_kind"}
            => /\ builder'.note.tags = builder.note.tags
               /\ builder'.build_status = builder.build_status]_vars

(* a builder in the FiveTags state that began with create_dm, after a
   content or set_kind call *)
C28_Witness ==
    /\ pc = "builder"
    /\ builder.build_status = MAX_TAGS
    /\ Len(builder.note.tags) = MAX_TAGS
    /\ StartsWith(builder.note.tags[1], <<112, 44>>)
    /\ arg.op \in {"content", "set_kind"}

(* C29: get_my_dms returns Err(InvalidPrivkey) for a bad key and
   Err(QueryBuilderOverflow) when ref_pks or kinds is full, and then the
   Query is as it was before the call; otherwise it returns Ok and the
   Query differs from the one before by the caller's x-only pubkey hex
   appended to ref_pks and DM appended to kinds. *)
C29_AllOrNothing ==
    pc = "dms"
        => LET before == arg.in[2]
               full == Len(before.ref_pks) = QUERY_VEC_LEN \/ Len(before.kinds) = QUERY_VEC_LEN
           IN IF arg.in[1] = BadPrivkey
              THEN IsErr(ret, "InvalidPrivkey") /\ query = before
              ELSE IF full
              THEN IsErr(ret, "QueryBuilderOverflow") /\ query = before
              ELSE /\ IsOk(ret)
                   /\ query = [before EXCEPT !.ref_pks = Append(@, PubHex(5)),
                                              !.kinds = Append(@, DM)]

(* the NIP-04 wire form: Base64 of the ciphertext, ?iv=, Base64 of the iv *)
IsWireForm(c, iv) ==
    LET parts == Split(c, IV_SEP)
    IN /\ Len(parts) = 2
       /\ IsOk(Base64Decode(parts[1], MAX_DM_SIZE))
       /\ Base64Decode(parts[2], MAX_DM_SIZE) = Ok(iv)

(* C30: a create_dm call that returns Ok changes the builder in its
   content (the NIP-04 wire form of the text for the recipient), its tags
   (the one tag p,<recipient hex>) and its state (ZeroTags to OneTag) and
   in nothing else, the kind included: after new_builder, which sets
   ShortNote, and no set_kind the kind is still ShortNote (1); a call that
   returns Err(InvalidPubkey) changes nothing; create_auth sets the kind
   to Auth. *)
C30_CreateDmFrame ==
    [][/\ arg'.op = "new_builder" /\ IsOk(ret')
            => builder'.note.kind = ShortNote /\ NoteKinds_number(ShortNote) = 1
       /\ arg'.op = "create_dm"
            => /\ builder.build_status = 0
               /\ IsOk(ret')
                    => /\ builder' = [builder EXCEPT !.note.content = builder'.note.content,
                                                      !.note.tags = <<<<112, 44>> \o arg'.in[2]>>,
                                                      !.build_status = 1]
                       /\ builder'.note.content.some
                       /\ IsWireForm(builder'.note.content.val, arg'.in[3])
                       /\ decrypt(SkB, Pub(builder.keypair), builder'.note.content.val) = Ok(arg'.in[1])
                       /\ builder'.note.kind = builder.note.kind
               /\ IsErr(ret', "InvalidPubkey") => builder' = builder
       /\ arg'.op = "create_auth" /\ IsOk(ret') => builder'.note.kind = Auth]_vars

(* create_dm returned Ok on a builder fresh from new_builder: one tag,
   kind ShortNote *)
C30_Witness ==
    /\ pc = "builder"
    /\ arg.op = "create_dm"
    /\ IsOk(ret)
    /\ builder.build_status = 1
    /\ builder.note.tags = <<<<112, 44>> \o PubHex(9)>>
    /\ builder.note.kind = ShortNote

(* to_decimal_str returns, for every u32, the shortest decimal string of the
   number: digits only, no leading zero except for "0", of the number's
   value. *)
DecimalStrShortest ==
    pc = "decimal" =>
        /\ IsOk(ret)
        /\ Len(ret.val) \in 1..DEC_STRING_SIZE
        /\ \A i \in 1..Len(ret.val) : IsDigit(ret.val[i])
        /\ Len(ret.val) > 1 => ret.val[1] # 48
        /\ ParseDigits(ret.val, 1, U32Zero) = Ok(arg.in[1])

====
